---- MODULE Spec2Model ----
(***************************************************************************)
(* Market Context Resolution Engine (backend/app/services/market.py and    *)
(* backend/app/services/alpha_vantage.py) as a state machine.              *)
(*                                                                         *)
(* Representation.                                                         *)
(*  - A Python str that the code manipulates character by character (a     *)
(*    ticker) is a sequence of one-character strings; a str the code only  *)
(*    compares or looks up (sector, industry, data_source) is a TLA+       *)
(*    string, with "None" for Python's None.                               *)
(*  - A Python float is an exact rational <<n, d>> with d > 0 in lowest    *)
(*    terms; None is the empty tuple <<>>.  Standard deviations are kept   *)
(*    squared (see Variance).                                              *)
(*  - A dict is a function whose DOMAIN is the set of its keys.            *)
(*  - A date is the day number of an ISO date string (ISO strings sort     *)
(*    chronologically).                                                    *)
(***************************************************************************)
EXTENDS Integers, Sequences, FiniteSets, TLC

VARIABLES
    now,          \* time.time()
    cache,        \* _cache: normalized ticker -> [ts, ref]
    info_cache,   \* _info_cache: normalized ticker -> [ts, val]
    bench_cache,  \* _bench_cache: ETF symbol -> [ts, val]
    heap,         \* live MarketResult objects: reference -> value
    use_yf_info,  \* _DEFAULT_USE_YF_INFO
    stack,        \* call stack of fetch_market_context activations
    batch,        \* the fetch_markets_context activation, or NoBatch
    ret,          \* what the last finished engine call handed to its caller
    lastCall,     \* the provider call made by the last step, NoCall if none
    called,       \* whether the running request has reached a provider
    nReq,         \* engine calls started so far
    nTicks,       \* clock advances so far
    pure,         \* a function applied on its own: its name, arguments, results
    threads       \* worker threads inside fetch_market_context: position and locals

vars == <<now, cache, info_cache, bench_cache, heap, use_yf_info, stack, batch,
          ret, lastCall, called, nReq, nTicks, pure, threads>>

-----------------------------------------------------------------------------
(* Bounds of the model *)

MaxRequests == 2
MaxProfileRequests == 1
MaxTicks == 1
MaxBatch == 2
RecursionLimit == 3
MaxLen == 3
MaxRows == 3
MaxThreads == 2
MaxThreadRequests == 2   \* length of the strings given to the normalizers

-----------------------------------------------------------------------------
(* Python values *)

None == "None"      \* None where the code expects a str it only compares
Null == <<>>         \* None where the code expects a number
NoneT == <<"None">>  \* None where the code expects a ticker str

Gcd(a, b) ==
    LET RECURSIVE G(_, _)
        G(x, y) == IF y = 0 THEN x ELSE G(y, x % y)
    IN  G(IF a < 0 THEN -a ELSE a, IF b < 0 THEN -b ELSE b)

\* n/d in lowest terms; a zero denominator gives the IEEE specials below.
R(n, d) ==
    IF d = 0 THEN <<IF n > 0 THEN 1 ELSE IF n < 0 THEN -1 ELSE 0, 0>>
    ELSE LET s == IF d < 0 THEN -1 ELSE 1
             g == Gcd(n, d)
         IN  <<(s * n) \div g, (s * d) \div g>>

Num(n) == <<n, 1>>

\* The arithmetic cancels common factors before it multiplies.
RAdd(a, b) ==
    IF a[2] = 0 \/ b[2] = 0 THEN R(a[1] * b[2] + b[1] * a[2], 0)
    ELSE LET g == Gcd(a[2], b[2])
         IN  R(a[1] * (b[2] \div g) + b[1] * (a[2] \div g), (a[2] \div g) * b[2])

RNeg(a) == <<-a[1], a[2]>>
RSub(a, b) == RAdd(a, RNeg(b))

RMul(a, b) ==
    IF a[1] = 0 \/ b[1] = 0 \/ a[2] = 0 \/ b[2] = 0 THEN R(a[1] * b[1], a[2] * b[2])
    ELSE LET g1 == Gcd(a[1], b[2])
             g2 == Gcd(b[1], a[2])
         IN  R((a[1] \div g1) * (b[1] \div g2), (a[2] \div g2) * (b[2] \div g1))

RDiv(a, b) == RMul(a, IF b[1] < 0 THEN <<-b[2], -b[1]>> ELSE <<b[2], b[1]>>)

\* Comparison of finite values.
RLt(a, b) ==
    LET g == Gcd(a[2], b[2])
    IN  a[1] * (b[2] \div g) < b[1] * (a[2] \div g)

RLe(a, b) == ~RLt(b, a)
RIsZero(a) == a[1] = 0 /\ a[2] # 0

NaN == <<0, 0>>
PosInf == <<1, 0>>
NegInf == <<-1, 0>>
IsFinite(x) == x # Null /\ x[2] # 0

Last(s) == s[Len(s)]
Tail_(s, n) == IF Len(s) <= n THEN s ELSE SubSeq(s, Len(s) - n + 1, Len(s))
Range(s) == {s[i] : i \in 1..Len(s)}

RECURSIVE SeqSum(_)
SeqSum(s) == IF s = <<>> THEN Num(0) ELSE RAdd(s[1], SeqSum(Tail(s)))

\* Stable ascending sort of rows on their date (list.sort / DataFrame.sort_index).
RECURSIVE InsertByDate(_, _)
InsertByDate(x, s) ==
    IF s = <<>> THEN <<x>>
    ELSE IF x.date < s[1].date THEN <<x>> \o s
    ELSE <<s[1]>> \o InsertByDate(x, Tail(s))

RECURSIVE SortByDate(_)
SortByDate(s) ==
    IF s = <<>> THEN <<>>
    ELSE InsertByDate(Last(s), SortByDate(SubSeq(s, 1, Len(s) - 1)))

-----------------------------------------------------------------------------
(* Ticker normalization *)

Upper(c) ==
    CASE c = "a" -> "A"
      [] c = "b" -> "B"
      [] OTHER -> c

IsSpace(c) == c = " "

RECURSIVE LStrip(_)
LStrip(s) == IF s # <<>> /\ IsSpace(s[1]) THEN LStrip(Tail(s)) ELSE s

RECURSIVE RStrip(_)
RStrip(s) == IF s # <<>> /\ IsSpace(Last(s)) THEN RStrip(SubSeq(s, 1, Len(s) - 1)) ELSE s

\* Faulty variant: at most one blank is removed at each end.
StripOnce(s) ==
    LET l == IF s # <<>> /\ IsSpace(s[1]) THEN Tail(s) ELSE s
    IN  IF l # <<>> /\ IsSpace(Last(l)) THEN SubSeq(l, 1, Len(l) - 1) ELSE l

Strip(s) == RStrip(LStrip(s))

\* Faulty variant: the dots of class-share tickers are kept.
NormalizeKeepDots(ticker) ==
    LET t0 == IF ticker = NoneT THEN <<>> ELSE ticker
        t1 == Strip(t0)
    IN  [i \in 1..Len(t1) |-> Upper(t1[i])]

_normalize_ticker(ticker) ==
    LET t0 == IF ticker = NoneT THEN <<>> ELSE ticker
        t1 == Strip(t0)
        t2 == [i \in 1..Len(t1) |-> Upper(t1[i])]
    IN  [i \in 1..Len(t2) |-> IF t2[i] = "." THEN "-" ELSE t2[i]]

-----------------------------------------------------------------------------
(* Data frames: [hasClose, rows], rows = <<[date, close, volume], ...>>.     *)
(* Open/High/Low are never read by the engine and are left out.             *)

EmptyDF == [hasClose |-> FALSE, rows |-> <<>>]

Row(d, c) == [date |-> d, close |-> c, volume |-> Null]

Usable(df) == df.rows # <<>> /\ df.hasClose

DropNaClose(rows) == SelectSeq(rows, LAMBDA r : r.close # Null /\ r.close # NaN)

_coerce_ohlcv_df(df) ==
    IF df.rows = <<>> THEN EmptyDF
    ELSE IF ~df.hasClose THEN EmptyDF            \* KeyError in dropna, caught
    ELSE [hasClose |-> TRUE, rows |-> SortByDate(DropNaClose(df.rows))]

-----------------------------------------------------------------------------
(* Secondary provider adapter (alpha_vantage.py).  An outcome of the HTTP     *)
(* exchange is [kind, ts]: kind "nokey" (no API key, no request), "raise"    *)
(* (transport error, HTTP status, timeout, invalid JSON), "notdict", "note"  *)
(* (throttling or error payload), or "ts" with ts the entries of             *)
(* "Time Series (Daily)" in payload order.                                   *)

BadStr == <<"?">>   \* a string float() rejects

_to_float(v) == IF v = Null \/ v = BadStr THEN Null ELSE v

AvEntry(d, c) == [date |-> d, isdict |-> TRUE, close |-> c, volume |-> Null]

AvGoodEntries(o) ==
    SelectSeq(o.ts, LAMBDA e : e.isdict /\ _to_float(e.close) # Null)

\* Faulty variant: one malformed row aborts the fetch.
FetchSeriesAbortOnBadRow(o) ==
    IF o.kind # "ts" \/ o.ts = <<>> \/ AvGoodEntries(o) # o.ts THEN <<>>
    ELSE LET points == SortByDate(o.ts)
             kept == Tail_(points, 32)
         IN  [i \in 1..Len(kept) |->
                 [date |-> kept[i].date, close |-> _to_float(kept[i].close)]]

fetch_daily_series_1mo(o) ==
    IF o.kind # "ts" \/ o.ts = <<>> THEN <<>>
    ELSE LET points == SortByDate(AvGoodEntries(o))
             kept == Tail_(points, 32)
         IN  [i \in 1..Len(kept) |->
                 [date |-> kept[i].date, close |-> _to_float(kept[i].close)]]

fetch_daily_ohlc_1y(o) ==
    IF o.kind # "ts" \/ o.ts = <<>> THEN <<>>
    ELSE LET points == SortByDate(AvGoodEntries(o))
         IN  [i \in 1..Len(points) |->
                 [date |-> points[i].date, close |-> _to_float(points[i].close),
                  volume |-> _to_float(points[i].volume)]]

fetch_daily_series_compact(o) == fetch_daily_series_1mo(o)

_df_from_alpha_vantage_ohlc(points) ==
    IF points = <<>> THEN EmptyDF
    ELSE [hasClose |-> TRUE, rows |-> DropNaClose(SortByDate(points))]

-----------------------------------------------------------------------------
(* Technical indicators *)

_safe_float(x) == IF x = Null \/ ~IsFinite(x) THEN Null ELSE x

Truthy(x) == x # Null /\ ~RIsZero(x)   \* Python truth of float | None

RECURSIVE InsertNum(_, _)
InsertNum(x, s) ==
    IF s = <<>> THEN <<x>>
    ELSE IF RLt(x, s[1]) THEN <<x>> \o s
    ELSE <<s[1]>> \o InsertNum(x, Tail(s))

RECURSIVE SortNum(_)
SortNum(s) ==
    IF s = <<>> THEN <<>> ELSE InsertNum(s[1], SortNum(Tail(s)))

\* Series.quantile(q) with q = qn/qd, linear interpolation.
Quantile(s, qn, qd) ==
    LET srt == SortNum(s)
        num == qn * (Len(s) - 1)
        i == num \div qd
        frac == R(num % qd, qd)
    IN  IF i + 1 >= Len(s) THEN srt[i + 1]
        ELSE RAdd(srt[i + 1], RMul(frac, RSub(srt[i + 2], srt[i + 1])))

RMin(a, b) == IF RLt(a, b) THEN a ELSE b
RMax(a, b) == IF RLt(a, b) THEN b ELSE a

_winsorize_series(s) ==
    IF s = <<>> THEN s
    ELSE LET lo == Quantile(s, 1, 100)
             hi == Quantile(s, 99, 100)
         IN  IF RLe(lo, Num(0)) \/ RLe(hi, Num(0)) \/ RLe(hi, lo) THEN s
             ELSE [i \in 1..Len(s) |-> RMax(lo, RMin(hi, s[i]))]

PctChange(c) == [i \in 1..(Len(c) - 1) |-> RSub(RDiv(c[i + 1], c[i]), Num(1))]

Mean(s) == RDiv(SeqSum(s), Num(Len(s)))

\* Population variance (std(ddof=0) squared).
Variance(s) ==
    LET m == Mean(s)
    IN  Mean([i \in 1..Len(s) |-> RMul(RSub(s[i], m), RSub(s[i], m))])

RECURSIVE SeqMax(_)
SeqMax(s) == IF Len(s) = 1 THEN s[1] ELSE RMax(s[1], SeqMax(Tail(s)))

RECURSIVE SeqMin(_)
SeqMin(s) == IF Len(s) = 1 THEN s[1] ELSE RMin(s[1], SeqMin(Tail(s)))

DayMove(closes) ==
    IF Len(closes) >= 2 /\ ~RIsZero(closes[Len(closes) - 1])
    THEN _safe_float(RMul(RDiv(RSub(Last(closes), closes[Len(closes) - 1]),
                               closes[Len(closes) - 1]), Num(100)))
    ELSE Null

_calculate_rsi(prices) ==
    IF Len(prices) < 14 + 1 THEN Null
    ELSE LET delta == [i \in 1..(Len(prices) - 1) |-> RSub(prices[i + 1], prices[i])]
             gains == [i \in 1..Len(delta) |->
                          IF RLt(Num(0), delta[i]) THEN delta[i] ELSE Num(0)]
             losses == [i \in 1..Len(delta) |->
                          IF RLt(delta[i], Num(0)) THEN RSub(Num(0), delta[i]) ELSE Num(0)]
             gain == Mean(Tail_(gains, 14))
             loss == Mean(Tail_(losses, 14))
             rs == RDiv(gain, loss)
         IN  _safe_float(RSub(Num(100), RDiv(Num(100), RAdd(Num(1), rs))))

\* vol_20d is carried as its square, move_zscore as its signed square: the
\* square root is monotone, so nullness, zeroness, sign and every threshold
\* comparison are those of the code's values.
Vol20dSq(rets) == _safe_float(RMul(Variance(Tail_(rets, 20)), Num(10000)))

ZScoreSq(rets) ==
    LET v == Variance(Tail_(rets, 20))
        r == Last(rets)
        sq == RDiv(RMul(r, r), v)
    IN  IF RLt(Num(0), v)
        THEN _safe_float(IF RLt(r, Num(0)) THEN RSub(Num(0), sq) ELSE sq)
        ELSE Null

VolatilityRegime(vol_20d_sq) ==
    IF Truthy(vol_20d_sq)
    THEN IF RLt(vol_20d_sq, Num(1)) THEN "low"
         ELSE IF RLt(Num(9), vol_20d_sq) THEN "high"
         ELSE "normal"
    ELSE None

-----------------------------------------------------------------------------
(* Symbols and the offline security directory (sp500.py, data/sp500.csv)     *)

SPY == <<"S", "P", "Y">>
XLF == <<"X", "L", "F">>
KBE == <<"K", "B", "E">>

\* The tickers callers pass in, raw.
RawTickers == {NoneT, <<>>, <<" ">>, <<"a">>, <<" ", "a">>, <<"b">>}

\* sp500.py, _normalize_ticker (the argument is a str, never None).
sp500_normalize_ticker(ticker) ==
    LET t1 == Strip(ticker)
        t2 == [i \in 1..Len(t1) |-> Upper(t1[i])]
    IN  [i \in 1..Len(t2) |-> IF t2[i] = "." THEN "-" ELSE t2[i]]

\* A row of data/sp500.csv as csv.DictReader yields it.
CsvRow(ticker, security, sector, industry) ==
    [ticker |-> ticker, security |-> security, sector |-> sector, industry |-> industry]

sp500_csv ==
    << CsvRow(<<"A">>, "Alpha Bank Inc.", "Financials", "Diversified Banks"),
       CsvRow(<<"B">>, "Beta", "Inc.", "") >>

\* load_sp500() on the rows of the CSV file: the Sp500Company records.
LoadCsv(rows) ==
    [i \in 1..Len(rows) |->
        [ticker |-> sp500_normalize_ticker(rows[i].ticker),
         security |-> rows[i].security,
         sector |-> IF rows[i].sector = "" THEN None ELSE rows[i].sector,
         industry |-> IF rows[i].industry = "" THEN None ELSE rows[i].industry]]

load_sp500 == LoadCsv(sp500_csv)

\* _normalize(s) and _strip_corp_suffixes(s) for the company names of the model.
NameKey(s) ==
    CASE s = "Alpha Bank Inc." -> "alpha bank inc"
      [] s = "Alpha Bank" -> "alpha bank"
      [] s = "Beta" -> "beta"
      [] s = "Gamma Corp" -> "gamma corp"
      [] OTHER -> ""

StripCorpSuffixes(key) ==
    CASE key = "alpha bank inc" -> "alpha bank"
      [] key = "gamma corp" -> "gamma"
      [] OTHER -> key

\* _name_variants(security): the lookup keys of a security name.
_name_variants(security) == {NameKey(security), StripCorpSuffixes(NameKey(security))} \ {""}

\* sp500_name_index(): key -> ticker, the first row that has the key wins.
sp500_name_index(companies) ==
    LET keys == UNION {_name_variants(companies[i].security) : i \in 1..Len(companies)}
        first(k) == CHOOSE i \in 1..Len(companies) :
                        /\ k \in _name_variants(companies[i].security)
                        /\ \A j \in 1..(i - 1) : k \notin _name_variants(companies[j].security)
    IN  [k \in keys |-> companies[first(k)].ticker]

\* resolve_sp500_ticker(company_or_alias) over the loaded companies; NoneT for None.
resolve_sp500_ticker(companies, company) ==
    LET key == NameKey(company)
        idx == sp500_name_index(companies)
        stripped == StripCorpSuffixes(key)
    IN  IF key = "" THEN NoneT
        ELSE IF key \in DOMAIN idx /\ idx[key] # <<>> THEN idx[key]
        ELSE IF stripped # "" /\ stripped # key /\ stripped \in DOMAIN idx
                /\ idx[stripped] # <<>>
        THEN idx[stripped]
        ELSE NoneT

lookup_sp500_profile(ticker) ==
    LET t == _normalize_ticker(ticker)
        hits == {i \in 1..Len(load_sp500) : load_sp500[i].ticker = t}
    IN  IF ticker = <<>> \/ hits = {} THEN [sector |-> None, industry |-> None]
        ELSE LET c == load_sp500[CHOOSE i \in hits : \A j \in hits : j <= i]
             IN  [sector |-> c.sector, industry |-> c.industry]

\* Lower-cased, stripped form of the profile strings of the model.
LowerStr(s) ==
    CASE s = "Inc." -> "inc."
      [] s = "Financials" -> "financials"
      [] s = "Diversified Banks" -> "diversified banks"
      [] OTHER -> s

_BAD_PROFILE_VALUES ==
    {"inc", "inc.", "incorporated", "corp", "corp.", "corporation", "ltd", "ltd.",
     "limited", "plc", "co", "co.", "company", "group", "holdings", "holding"}

\* len(v.split()) == 1 and len(v) <= 4, for the profile strings of the model
IsShortToken(s) == s \in {"Inc.", "Tech"}

_clean_profile_str(s) ==
    IF s = None \/ s = "" THEN None
    ELSE IF LowerStr(s) \in _BAD_PROFILE_VALUES THEN None
    ELSE IF IsShortToken(s) THEN None
    ELSE s

sector_etfs ==
    [s \in {"Technology"} |-> <<"X", "L", "K">>]
    @@ [s \in {"Health Care", "Healthcare"} |-> <<"X", "L", "V">>]
    @@ [s \in {"Financials", "Financial Services"} |-> XLF]
    @@ [s \in {"Consumer Cyclical", "Consumer Discretionary"} |-> <<"X", "L", "Y">>]
    @@ [s \in {"Consumer Defensive", "Consumer Staples"} |-> <<"X", "L", "P">>]
    @@ [s \in {"Industrials"} |-> <<"X", "L", "I">>]
    @@ [s \in {"Energy"} |-> <<"X", "L", "E">>]
    @@ [s \in {"Utilities"} |-> <<"X", "L", "U">>]
    @@ [s \in {"Real Estate"} |-> <<"X", "L", "R", "E">>]
    @@ [s \in {"Basic Materials", "Materials"} |-> <<"X", "L", "B">>]
    @@ [s \in {"Communication Services", "Communication"} |-> <<"X", "L", "C">>]

SectorEtf(sector) == IF sector \in DOMAIN sector_etfs THEN sector_etfs[sector] ELSE <<>>

\* The keywords of _industry_benchmark_etf that occur in a lower-cased industry.
IndustryKeywords(industry) ==
    CASE industry = "Diversified Banks" -> {"bank", "banks"}
      [] OTHER -> {}

\* (label, etf); the rules are tried in the code's order, first match wins.
_industry_benchmark_etf(industry, sector) ==
    LET kw == IndustryKeywords(industry)
        hit(ks) == kw \cap ks # {}
    IN  IF industry = None /\ sector = None THEN [label |-> None, etf |-> <<>>]
        ELSE IF hit({"semiconductor", "semi", "chip"})
             THEN [label |-> "Semiconductors (SOXX)", etf |-> <<"S", "O", "X", "X">>]
        ELSE IF hit({"consumer electronics", "iphone", "smartphone", "wearable"})
             THEN [label |-> "Consumer Tech (VGT)", etf |-> <<"V", "G", "T">>]
        ELSE IF hit({"software", "application", "saas", "cloud"})
             THEN [label |-> "Software (IGV)", etf |-> <<"I", "G", "V">>]
        ELSE IF hit({"internet retail", "e-commerce", "ecommerce", "online retail"})
             THEN [label |-> "Online Retail (IBUY)", etf |-> <<"I", "B", "U", "Y">>]
        ELSE IF hit({"internet", "e-commerce", "online retail", "digital"})
             THEN [label |-> "Internet (FDN)", etf |-> <<"F", "D", "N">>]
        ELSE IF hit({"cyber", "security"})
             THEN [label |-> "Cybersecurity (HACK)", etf |-> <<"H", "A", "C", "K">>]
        ELSE IF hit({"biotech", "biotechnology"})
             THEN [label |-> "Biotech (IBB)", etf |-> <<"I", "B", "B">>]
        ELSE IF hit({"retail"})
             THEN [label |-> "Retail (XRT)", etf |-> <<"X", "R", "T">>]
        ELSE IF hit({"bank", "banks"})
             THEN [label |-> "Banks (KBE)", etf |-> KBE]
        ELSE IF hit({"oil", "gas", "exploration", "drilling", "energy equipment"})
             THEN [label |-> "Oil & Gas (XOP)", etf |-> <<"X", "O", "P">>]
        ELSE [label |-> None, etf |-> <<>>]

-----------------------------------------------------------------------------
(* Provider outcomes.  A primary (yfinance) call ends in an exception with a  *)
(* message, or in a data frame; the outcome is chosen anew at every call.    *)

Raised(msg) == [exc |-> msg, df |-> EmptyDF]
Returned(df) == [exc |-> None, df |-> df]

\* The throttling signatures that occur in a lower-cased exception message.
MsgSignatures(msg) ==
    CASE msg = "Too Many Requests. Rate limited." -> {"too many requests", "too many request"}
      [] OTHER -> {}

RateLimited(msg) ==
    MsgSignatures(msg) \cap {"yfratelimiterror", "rate limit", "ratelimit",
                             "too many requests", "too many request", "http 429"} # {}

Frame(rows) == [hasClose |-> TRUE, rows |-> rows]

HistoryFrames ==
    { Frame(<<Row(1, Num(100))>>),
      Frame(<<Row(3, Num(50)), Row(1, Num(50)), Row(2, Num(100))>>),
      Frame(<<Row(1, NaN)>>),
      [hasClose |-> FALSE, rows |-> <<Row(1, Null)>>] }

EtfFrames ==
    { Frame(<<Row(1, Num(100)), Row(2, Num(101))>>),
      Frame(<<Row(2, Num(101))>>) }

\* An index table whose previous close is 0: the move is not a finite number.
ZeroCloseFrame == Frame(<<Row(1, Num(0)), Row(2, Num(101))>>)

YfOutcomes(sym, period) ==
    {Raised("Too Many Requests. Rate limited."), Raised("Read timed out."),
     Returned(EmptyDF)}
    \cup (IF sym = <<>> THEN {}
          ELSE IF sym \in {SPY, XLF, KBE} THEN {Returned(df) : df \in EtfFrames}
          ELSE {Returned(df) : df \in HistoryFrames})

AvFail(kind) == [kind |-> kind, ts |-> <<>>]

AvOutcomes(sym) ==
    {AvFail("nokey"), AvFail("raise"), AvFail("note")}
    \cup (IF sym = <<>> THEN {}
          ELSE IF sym \in {SPY, XLF, KBE}
          THEN { [kind |-> "ts",
                  ts |-> <<AvEntry(2, Num(101)), AvEntry(1, Num(100))>>],
                 [kind |-> "ts", ts |-> <<AvEntry(2, Num(101))>>] }
          ELSE { [kind |-> "ts",
                  ts |-> <<AvEntry(3, Num(102)), AvEntry(2, Num(100))>>],
                 [kind |-> "ts",
                  ts |-> <<[date |-> 3, isdict |-> FALSE, close |-> Null, volume |-> Null],
                           AvEntry(2, Num(100)), AvEntry(1, BadStr)>>] })

-----------------------------------------------------------------------------
(* Caches *)

_CACHE_TTL_SECONDS == 60 * 60 * 24
_INFO_CACHE_TTL_SECONDS == 60 * 60 * 24 * 7
_BENCH_CACHE_TTL_SECONDS == 60 * 60 * 6

NoRef == 0

Put(d, k, v) == [x \in DOMAIN d \cup {k} |-> IF x = k THEN v ELSE d[x]]
Pop(d, k) == [x \in DOMAIN d \ {k} |-> d[x]]

\* Faulty variant: the age of an entry is not looked at.
CacheGetNoExpiry(c, ticker, t) ==
    IF ticker \notin DOMAIN c THEN [val |-> NoRef, cache |-> c]
    ELSE [val |-> c[ticker].ref, cache |-> c]

\* [val, cache]: the reference found (NoRef for None) and the store afterwards.
_cache_get(c, ticker, t) ==
    IF ticker \notin DOMAIN c THEN [val |-> NoRef, cache |-> c]
    ELSE IF t - c[ticker].ts > _CACHE_TTL_SECONDS
         THEN [val |-> NoRef, cache |-> Pop(c, ticker)]
    ELSE [val |-> c[ticker].ref, cache |-> c]

_cache_set(c, ticker, ref, t) == Put(c, ticker, [ts |-> t, ref |-> ref])

\* [found, val, cache]: found is False where the code reads None.
_bench_cache_get(c, key, t) ==
    IF key \notin DOMAIN c THEN [val |-> Null, cache |-> c]
    ELSE IF t - c[key].ts > _BENCH_CACHE_TTL_SECONDS
         THEN [val |-> Null, cache |-> Pop(c, key)]
    ELSE [val |-> c[key].val, cache |-> c]

_bench_cache_set(c, key, val, t) == Put(c, key, [ts |-> t, val |-> val])

-----------------------------------------------------------------------------
(* MarketResult *)

MarketResultDefaults ==
    [price_series |-> <<>>, day_move_pct |-> Null, vol_20d |-> Null, move_zscore |-> Null,
     data_source |-> None, last_close_date |-> Null, price_series_days |-> Null,
     current_price |-> Null, week_52_high |-> Null, week_52_low |-> Null,
     pct_from_52w_high |-> Null, pct_from_52w_low |-> Null, market_cap |-> Null,
     sector |-> None, industry |-> None, beta |-> Null, pe_ratio |-> Null,
     sector_performance_today |-> Null, sp500_performance_today |-> Null,
     relative_strength |-> Null, industry_benchmark |-> None,
     industry_performance_today |-> Null, relative_strength_vs_industry |-> Null,
     peer_group_label |-> None, peer_group_size |-> Null, peer_avg_move_today |-> Null,
     relative_strength_vs_peers |-> Null, rsi_14d |-> Null, ma_50d |-> Null,
     ma_200d |-> Null, unusual_volume |-> FALSE, near_52w_high |-> FALSE,
     volatility_regime |-> None, average_volume_20d |-> Null, current_volume |-> Null]

\* MarketResult(**given): the dataclass defaults with the given fields set.
MarketResult(given) ==
    [f \in DOMAIN MarketResultDefaults |->
        IF f \in DOMAIN given THEN given[f] ELSE MarketResultDefaults[f]]

With(r, given) == [f \in DOMAIN r |-> IF f \in DOMAIN given THEN given[f] ELSE r[f]]

Closes(rows) == [i \in 1..Len(rows) |-> rows[i].close]

PriceSeries(rows, closes) ==
    [i \in 1..Len(rows) |-> [date |-> rows[i].date, close |-> closes[i]]]

LastDate(series) == IF series = <<>> THEN Null ELSE Num(Last(series).date)

\* fetch_market_context, lines 683-687: the winsorized closes and the series.
ClosesAll(df) == _winsorize_series(Closes(df.rows))

SeriesOf(df) ==
    LET n == Len(df.rows)
        lo == IF n > 32 THEN n - 32 + 1 ELSE 1
    IN  PriceSeries(SubSeq(df.rows, lo, n), SubSeq(ClosesAll(df), lo, n))

Returns(closes) ==
    SelectSeq(PctChange(Tail_(closes, 60)), LAMBDA x : x # NaN)

Volumes(df) == SelectSeq([i \in 1..Len(df.rows) |-> df.rows[i].volume],
                         LAMBDA v : v # Null /\ v # NaN)

\* Lines 753-759: the distance of the price from a 52-week extreme, in percent.
PctFrom(current_price, extreme) ==
    IF Truthy(current_price) /\ Truthy(extreme)
    THEN _safe_float(RMul(RDiv(RSub(current_price, extreme), extreme), Num(100)))
    ELSE Null

\* Lines 733, 755-756, 762-763, 769-792: the flags and fields read off computed values.
DerivedFields(closes_all, vol_20d, pct_hi, has_vol, avg_vol, curr_vol) ==
    [vol_20d |-> vol_20d,
     pct_from_52w_high |-> pct_hi,
     near_52w_high |-> Truthy(pct_hi) /\ RLe(Num(-5), pct_hi),
     ma_50d |-> IF Len(closes_all) >= 50
                THEN _safe_float(Mean(Tail_(closes_all, 50))) ELSE Null,
     ma_200d |-> IF Len(closes_all) >= 200
                 THEN _safe_float(Mean(Tail_(closes_all, 200))) ELSE Null,
     unusual_volume |-> has_vol /\ RLt(Num(0), avg_vol)
                        /\ RLt(RMul(avg_vol, Num(2)), curr_vol),
     average_volume_20d |-> IF has_vol THEN _safe_float(avg_vol) ELSE Null,
     current_volume |-> IF has_vol THEN _safe_float(curr_vol) ELSE Null,
     volatility_regime |-> VolatilityRegime(vol_20d)]

\* Lines 722-747, 766, 773-777: the fields computed from closes, returns and volumes.
PriceFields(closes_all, rets, current_price, week_52_high, week_52_low, volumes) ==
    [day_move_pct |-> DayMove(closes_all),
     move_zscore |-> ZScoreSq(rets),
     current_price |-> current_price,
     week_52_high |-> week_52_high,
     week_52_low |-> week_52_low,
     pct_from_52w_low |-> PctFrom(current_price, week_52_low),
     rsi_14d |-> _calculate_rsi(closes_all)]
    @@ DerivedFields(closes_all, Vol20dSq(rets), PctFrom(current_price, week_52_high),
                     Len(volumes) >= 20,
                     IF Len(volumes) >= 20 THEN Mean(Tail_(volumes, 20)) ELSE Null,
                     IF Len(volumes) >= 20 THEN Last(volumes) ELSE Null)

IndicatorsOf(closes_all, volumes) ==
    PriceFields(closes_all, Returns(closes_all), _safe_float(Last(closes_all)),
                _safe_float(SeqMax(Tail_(closes_all, 252))),
                _safe_float(SeqMin(Tail_(closes_all, 252))), volumes)

\* fetch_market_context, lines 721-792: the fields computed from the table.
Indicators(df) == IndicatorsOf(ClosesAll(df), Volumes(df))

\* Percentage change over the last two rows of a benchmark table.
PctLastTwo(closes) ==
    LET prev == closes[Len(closes) - 1]
        cur == Last(closes)
    IN  _safe_float(RMul(RDiv(RSub(cur, prev), prev), Num(100)))

\* The Alpha Vantage fallback of a benchmark: [ok, val].
AvBenchmark(series) ==
    IF Len(series) >= 2
       /\ Truthy(series[Len(series) - 1].close) /\ Truthy(Last(series).close)
    THEN [ok |-> TRUE, val |-> PctLastTwo(Closes(series))]
    ELSE [ok |-> FALSE, val |-> Null]

-----------------------------------------------------------------------------
(* Activations *)

EmptyDict == [x \in {} |-> 0]

EmptyInfo == [sector |-> None, industry |-> None, marketCap |-> Null,
              beta |-> Null, trailingPE |-> Null]

NoCall == [prov |-> "none", fn |-> "none", sym |-> <<>>, period |-> "none",
           exc |-> None, res |-> "none", attempt |-> 0, depth |-> 0]

\* What a fetch_market_context activation did, kept for the properties.
NoObs == [t |-> <<>>, empty_input |-> FALSE, hit |-> FALSE, had_fresh |-> FALSE,
          had_stale |-> FALSE, n1y |-> 0, nOhlc |-> 0, nClose |-> 0, nStore |-> 0,
          pOut |-> "none", oOut |-> "none", cSeries |-> <<>>]

NoPeer == [label |-> None, size |-> Null, avg |-> Null]

NewFrame(t, obs) ==
    [pc |-> "info", t |-> t, market_cap |-> Null, sector |-> None, industry |-> None,
     beta |-> Null, pe_ratio |-> Null, df |-> EmptyDF, data_source |-> None,
     late |-> FALSE, sp |-> Null, sec |-> Null, indp |-> Null, ind_label |-> None,
     etf |-> <<>>, k |-> 0, last_df |-> EmptyDF, i |-> 1, scored |-> <<>>,
     peers |-> <<>>, pidx |-> 1, moves |-> <<>>, peer |-> NoPeer, obs |-> obs]

NoBatch == [pc |-> "idle", tickers |-> <<>>, i |-> 1, seen |-> {}, out |-> <<>>,
            nt |-> <<>>]

\* A worker thread outside of fetch_market_context; nowL and hit are the
\* locals `now` and `hit` of _cache_get, n the requests it has served.
IdleThread == [pc |-> "idle", t |-> <<>>, nowL |-> 0, hit |-> <<>>, n |-> 0]

\* No function is applied on its own.
NoPure == [fn |-> "none", args |-> <<>>, outs |-> <<>>]

NoRet == [kind |-> "none", refs |-> <<>>, raised |-> FALSE, obs |-> NoObs,
          input |-> <<>>]

Top == stack[Len(stack)]
Idle == stack = <<>> /\ batch.pc = "idle"
At(pc) == stack # <<>> /\ Top.pc = pc

SetTop(f) == stack' = [stack EXCEPT ![Len(stack)] = f]

\* What a provider call delivered: it raised, or returned nothing, a table
\* without a Close column, or a table.
Got(o) ==
    IF o.exc # None THEN "raised"
    ELSE IF o.df.rows = <<>> THEN "empty"
    ELSE IF ~o.df.hasClose THEN "noclose"
    ELSE "table"

AvGot(points) == IF points = <<>> THEN "empty" ELSE "table"

InfoGot(o) == IF o.exc # None THEN "raised" ELSE "table"

\* A provider call: attempt is its number within _download_with_fallbacks,
\* 0 for a call made outside of it.
CallIn(prov, fn, sym, period, exc, res, attempt) ==
    /\ lastCall' = [prov |-> prov, fn |-> fn, sym |-> sym, period |-> period,
                    exc |-> exc, res |-> res, attempt |-> attempt,
                    depth |-> Len(stack)]
    /\ called' = TRUE

Call(prov, fn, sym, period, exc, res) == CallIn(prov, fn, sym, period, exc, res, 0)

\* A step that reaches no provider.
NoProviderCall == lastCall' = NoCall /\ UNCHANGED called

\* The locals of a benchmark helper are gone once it has returned.
EndFetch(f) == [f EXCEPT !.etf = <<>>, !.k = 0, !.last_df = EmptyDF]

\* Objects: a new object gets the smallest unused reference; an object that
\* neither the cache nor a caller's result refers to is freed.
NewRef(h) ==
    CHOOSE r \in 1..(Cardinality(DOMAIN h) + 1) :
        r \notin DOMAIN h /\ \A q \in 1..(r - 1) : q \in DOMAIN h

Collect(h, c, refs) ==
    [r \in DOMAIN h \cap ({c[k].ref : k \in DOMAIN c} \cup refs) |-> h[r]]

\* Whether a cache entry for t is within / beyond its TTL now.
Fresh(t) == t \in DOMAIN cache /\ now - cache[t].ts <= _CACHE_TTL_SECONDS
Stale(t) == t \in DOMAIN cache /\ now - cache[t].ts > _CACHE_TTL_SECONDS

\* fetch_market_context returns the object `ref` (already in h) to its caller:
\* the engine's caller at depth 1, the peer loop (lines 570-572) below that.
HandBack(h, c, ref, obs) ==
    IF Len(stack) = 1
    THEN /\ stack' = <<>>
         /\ ret' = [kind |-> "primary", refs |-> <<ref>>, raised |-> FALSE,
                    obs |-> obs, input |-> ret.input]
         /\ cache' = c
         /\ heap' = Collect(h, c, {ref})
    ELSE LET p == stack[Len(stack) - 1]
             r == h[ref]
             q == [p EXCEPT !.moves = IF r.day_move_pct # Null
                                      THEN Append(@, r.day_move_pct) ELSE @,
                            !.pidx = @ + 1]
         IN  /\ stack' = [SubSeq(stack, 1, Len(stack) - 1) EXCEPT ![Len(stack) - 1] = q]
             /\ ret' = ret
             /\ cache' = c
             /\ heap' = Collect(h, c, {})

\* Faulty variant: a snapshot without data is returned but not stored.
StoreAndReturnUnlessEmpty(f, res) ==
    LET ref == NewRef(heap)
        obs == [f.obs EXCEPT !.nStore = @ + 1]
    IN  HandBack(Put(heap, ref, res),
                 IF res.data_source = None THEN cache
                 ELSE _cache_set(cache, f.t, ref, now), ref, obs)

\* `res = MarketResult(...); _cache_set(t, res); return res` of activation f
StoreAndReturn(f, res) ==
    LET ref == NewRef(heap)
        obs == [f.obs EXCEPT !.nStore = @ + 1]
    IN  HandBack(Put(heap, ref, res), _cache_set(cache, f.t, ref, now), ref, obs)

\* An exception leaves fetch_market_context: it reaches the engine's caller
\* at depth 1, the handler of _peer_benchmark_for_ticker (lines 580-581)
\* below that.
Propagate ==
    IF Len(stack) = 1
    THEN /\ stack' = <<>>
         /\ ret' = [kind |-> "primary", refs |-> <<>>, raised |-> TRUE,
                    obs |-> Top.obs, input |-> ret.input]
         /\ UNCHANGED <<cache, heap>>
    ELSE LET p == stack[Len(stack) - 1]
             q == [p EXCEPT !.peer = NoPeer, !.pc = "finish"]
         IN  /\ stack' = [SubSeq(stack, 1, Len(stack) - 1) EXCEPT ![Len(stack) - 1] = q]
             /\ UNCHANGED <<ret, cache, heap>>

-----------------------------------------------------------------------------
(* fetch_market_context: entry, profile, price cascade *)

\* Engine calls explored: fewer with profiles on, where one call nests others.
RequestBound == IF use_yf_info THEN MaxProfileRequests ELSE MaxRequests

\* Lines 585-602 for the engine's caller: guard, normalization, cache lookup.
ResolvePrimary(raw) ==
    /\ Idle
    /\ nReq < RequestBound
    /\ nReq' = nReq + 1
    /\ lastCall' = NoCall
    /\ called' = FALSE
    /\ UNCHANGED <<pure, threads, now, info_cache, bench_cache, use_yf_info, batch, nTicks>>
    /\ IF raw = NoneT \/ raw = <<>>
       THEN LET h == Collect(heap, cache, {})
                ref == NewRef(h)
            IN  /\ ret' = [kind |-> "primary", refs |-> <<ref>>, raised |-> FALSE,
                           obs |-> [NoObs EXCEPT !.empty_input = TRUE],
                           input |-> <<raw>>]
                /\ heap' = Put(h, ref, MarketResult(EmptyDict))
                /\ UNCHANGED <<cache, stack>>
       ELSE LET t == _normalize_ticker(raw)
                g == _cache_get(cache, t, now)
                obs == [NoObs EXCEPT !.t = t, !.had_fresh = Fresh(t),
                                     !.had_stale = Stale(t), !.hit = g.val # NoRef]
            IN  /\ cache' = g.cache
                /\ IF g.val # NoRef
                   THEN /\ ret' = [kind |-> "primary", refs |-> <<g.val>>,
                                   raised |-> FALSE, obs |-> obs, input |-> <<raw>>]
                        /\ heap' = Collect(heap, g.cache, {g.val})
                        /\ UNCHANGED stack
                   ELSE /\ ret' = [NoRet EXCEPT !.input = <<raw>>]
                        /\ heap' = Collect(heap, g.cache, {})
                        /\ stack' = <<NewFrame(t, obs)>>

\* The outcomes of yf.Ticker(t).info.
ProfileOutcomes(sym) ==
    { [exc |-> "Read timed out.", info |-> EmptyInfo],
      [exc |-> None, info |-> EmptyInfo],
      [exc |-> None,
       info |-> [sector |-> "Financials", industry |-> "Diversified Banks",
                 marketCap |-> Num(10), beta |-> Null, trailingPE |-> Null]] }
    \cup (IF sym = <<"B">>
          THEN {[exc |-> None,
                 info |-> [sector |-> "Financials", industry |-> None,
                           marketCap |-> Null, beta |-> Null, trailingPE |-> Null]]}
          ELSE {})

NoProfile == [exc |-> None, info |-> EmptyInfo]

InfoHit(ic, ticker) ==
    ticker \in DOMAIN ic /\ now - ic[ticker].ts <= _INFO_CACHE_TTL_SECONDS

\* Whether _get_ticker_info reaches the network.
NeedsProfile(ic, ticker) == ~InfoHit(ic, ticker) /\ use_yf_info

\* Faulty variant: the network profile is fetched whatever the flag says.
GetTickerInfoUngated(ic, ticker, o) ==
    IF InfoHit(ic, ticker) THEN [info |-> ic[ticker].val, cache |-> ic]
    ELSE IF o.exc # None THEN [info |-> EmptyInfo, cache |-> ic]
    ELSE [info |-> o.info, cache |-> Put(ic, ticker, [ts |-> now, val |-> o.info])]

\* [info, cache]; o is the outcome of the network call, if one is made.
_get_ticker_info(ic, ticker, o) ==
    IF InfoHit(ic, ticker) THEN [info |-> ic[ticker].val, cache |-> ic]
    ELSE IF ~use_yf_info THEN [info |-> EmptyInfo, cache |-> ic]
    ELSE IF o.exc # None THEN [info |-> EmptyInfo, cache |-> ic]
    ELSE [info |-> o.info, cache |-> Put(ic, ticker, [ts |-> now, val |-> o.info])]

Or(a, b) == IF a = None \/ a = "" THEN b ELSE a

\* Lines 604-623.
FetchInfo ==
    /\ At("info")
    /\ \E o \in (IF NeedsProfile(info_cache, Top.t) THEN ProfileOutcomes(Top.t)
                 ELSE {NoProfile}) :
         LET f == Top
             g == _get_ticker_info(info_cache, f.t, o)
             sector == _clean_profile_str(g.info.sector)
             industry == _clean_profile_str(g.info.industry)
             off == lookup_sp500_profile(f.t)
             fill == sector = None \/ industry = None
         IN  /\ info_cache' = g.cache
             /\ IF NeedsProfile(info_cache, f.t)
                THEN Call("yf", "info", f.t, "none", o.exc, InfoGot(o))
                ELSE NoProviderCall
             /\ SetTop([f EXCEPT
                    !.pc = "yf",
                    !.market_cap = _safe_float(g.info.marketCap),
                    !.sector = IF fill THEN Or(sector, _clean_profile_str(off.sector))
                               ELSE sector,
                    !.industry = IF fill THEN Or(industry, _clean_profile_str(off.industry))
                                 ELSE industry,
                    !.beta = _safe_float(g.info.beta),
                    !.pe_ratio = _safe_float(g.info.trailingPE)])
    /\ UNCHANGED <<pure, threads, now, cache, bench_cache, heap, use_yf_info, batch, ret, nReq, nTicks>>

ProfileFields(f) ==
    [market_cap |-> f.market_cap, sector |-> f.sector, industry |-> f.industry,
     beta |-> f.beta, pe_ratio |-> f.pe_ratio]

\* A table that carries no close at all.
NoCloses(df) ==
    ~df.hasClose \/ \A i \in 1..Len(df.rows) : df.rows[i].close \in {Null, NaN}

Outcome(o) ==
    IF o.exc # None THEN "raised" ELSE IF NoCloses(o.df) THEN "unusable" ELSE "usable"

\* Faulty variant: the download is not wrapped in try/except.
PrimaryFetchUnguarded(o) ==
    IF o.exc # None THEN [raised |-> TRUE, df |-> EmptyDF, data_source |-> None]
    ELSE LET df == _coerce_ohlcv_df(o.df)
         IN  [raised |-> FALSE, df |-> df,
              data_source |-> IF Usable(df) THEN "yfinance" ELSE None]

\* Lines 626-634: [raised, df, data_source].
PrimaryFetch(o) ==
    IF o.exc # None THEN [raised |-> FALSE, df |-> EmptyDF, data_source |-> None]
    ELSE LET df == _coerce_ohlcv_df(o.df)
         IN  [raised |-> FALSE, df |-> df,
              data_source |-> IF Usable(df) THEN "yfinance" ELSE None]

\* Lines 637-645: [raised, df, data_source].
SecondaryOhlcFetch(o) ==
    LET df == _coerce_ohlcv_df(_df_from_alpha_vantage_ohlc(fetch_daily_ohlc_1y(o)))
    IN  [raised |-> FALSE, df |-> df,
         data_source |-> IF Usable(df) THEN "alpha_vantage" ELSE None]

\* Lines 683-719, with a usable table in f.df: the series is empty (on to the
\* close-only fetch), or there is no return to compute (early result), or
\* the benchmarks follow.
Proceed(f) ==
    LET series == SeriesOf(f.df)
        rets == Returns(ClosesAll(f.df))
    IN  IF series = <<>>
        THEN /\ SetTop([f EXCEPT !.pc = "av_close", !.late = TRUE])
             /\ UNCHANGED <<cache, heap, ret>>
        ELSE IF rets = <<>>
        THEN StoreAndReturn(f, MarketResult(
                 [price_series |-> series, data_source |-> f.data_source,
                  last_close_date |-> LastDate(series),
                  price_series_days |-> Num(Len(series))] @@ ProfileFields(f)))
        ELSE /\ SetTop([f EXCEPT !.pc = "spy"])
             /\ UNCHANGED <<cache, heap, ret>>

\* Faulty variant: the fallback is tried whatever the fetch delivered.
AfterFetchAlwaysFallback(f, r, fallback) ==
    IF r.raised THEN Propagate
    ELSE /\ SetTop([f EXCEPT !.pc = fallback])
         /\ UNCHANGED <<cache, heap, ret>>

\* After a fetch of the cascade: propagate, fall back, or go on with the table.
AfterFetch(f, r, fallback) ==
    IF r.raised THEN Propagate
    ELSE IF ~Usable(r.df)
    THEN /\ SetTop([f EXCEPT !.pc = fallback])
         /\ UNCHANGED <<cache, heap, ret>>
    ELSE Proceed([f EXCEPT !.df = r.df, !.data_source = r.data_source])

PrimaryCall ==
    /\ At("yf")
    /\ \E o \in YfOutcomes(Top.t, "1y") :
         /\ Call("yf", "download", Top.t, "1y", o.exc, Got(o))
         /\ AfterFetch([Top EXCEPT !.obs.n1y = @ + 1, !.obs.pOut = Outcome(o)],
                       PrimaryFetch(o), "av_ohlc")
    /\ UNCHANGED <<pure, threads, now, info_cache, bench_cache, use_yf_info, batch, nReq, nTicks>>

SecondaryOhlcCall ==
    /\ At("av_ohlc")
    /\ \E o \in AvOutcomes(Top.t) :
         /\ Call("av", "ohlc", Top.t, "compact", None, AvGot(fetch_daily_ohlc_1y(o)))
         /\ AfterFetch([Top EXCEPT !.obs.nOhlc = @ + 1,
                                   !.obs.oOut = IF fetch_daily_ohlc_1y(o) = <<>>
                                                THEN "unusable" ELSE "usable"],
                       SecondaryOhlcFetch(o), "av_close")
    /\ UNCHANGED <<pure, threads, now, info_cache, bench_cache, use_yf_info, batch, nReq, nTicks>>

\* Faulty variant: the close-only result is labelled without looking at the series.
CloseOnlyResultLabelled(f, series_av) ==
    MarketResult(
        [price_series |-> series_av,
         data_source |-> "alpha_vantage",
         last_close_date |-> LastDate(series_av),
         price_series_days |-> Num(Len(series_av))]
        @@ ProfileFields(f))

\* Faulty variant: the close-only result carries a day move.
CloseOnlyResultWithMove(f, series_av) ==
    MarketResult(
        [price_series |-> series_av,
         day_move_pct |-> DayMove(Closes(series_av)),
         data_source |-> IF series_av # <<>> THEN "alpha_vantage" ELSE f.data_source,
         last_close_date |-> LastDate(series_av),
         price_series_days |-> Num(Len(series_av))]
        @@ ProfileFields(f))

\* Lines 648-681, and 689-702 when the series of a usable table was empty.
CloseOnlyResult(f, series_av) ==
    MarketResult(
        [price_series |-> series_av,
         data_source |-> IF series_av # <<>> THEN "alpha_vantage" ELSE f.data_source,
         last_close_date |-> LastDate(series_av),
         price_series_days |-> Num(Len(series_av)),
         current_price |-> IF series_av # <<>> /\ ~f.late
                           THEN Last(series_av).close ELSE Null]
        @@ ProfileFields(f))

SecondaryCloseCall ==
    /\ At("av_close")
    /\ \E o \in AvOutcomes(Top.t) :
         LET series_av == fetch_daily_series_1mo(o)
             f == [Top EXCEPT !.obs.nClose = @ + 1, !.obs.cSeries = series_av]
         IN  /\ Call("av", "close", Top.t, "compact", None, AvGot(series_av))
             /\ StoreAndReturn(f, CloseOnlyResult(f, series_av))
    /\ UNCHANGED <<pure, threads, now, info_cache, bench_cache, use_yf_info, batch, nReq, nTicks>>

-----------------------------------------------------------------------------
(* fetch_market_context: comparative benchmarks *)

\* try-block of a single 5-day benchmark download (lines 346-355, 495-503):
\* [ok, val]; ok is False where the code falls through to Alpha Vantage.
BenchmarkFromYf(o) ==
    IF o.exc = None /\ Usable(o.df) /\ Len(o.df.rows) >= 2
    THEN [ok |-> TRUE, val |-> PctLastTwo(Closes(o.df.rows))]
    ELSE [ok |-> FALSE, val |-> Null]

\* _fetch_sp500_performance, lines 343-355, on the store bc at time t, o
\* being what the download delivers if it is made: [called, ok, val, cache];
\* ok is False where the code falls through to Alpha Vantage.
Sp500Try(bc, o, t) ==
    LET g == _bench_cache_get(bc, SPY, t)
        b == BenchmarkFromYf(o)
    IN  IF g.val # Null
        THEN [called |-> FALSE, ok |-> TRUE, val |-> g.val, cache |-> g.cache]
        ELSE [called |-> TRUE, ok |-> b.ok, val |-> b.val,
              cache |-> IF b.ok THEN _bench_cache_set(g.cache, SPY, b.val, t)
                        ELSE g.cache]

Sp500Yf ==
    /\ At("spy")
    /\ \E o \in YfOutcomes(SPY, "5d") :
         LET f == Top
             r == Sp500Try(bench_cache, o, now)
         IN  /\ bench_cache' = r.cache
             /\ IF r.called THEN Call("yf", "download", SPY, "5d", o.exc, Got(o))
                ELSE NoProviderCall
             /\ IF r.ok THEN SetTop([f EXCEPT !.sp = r.val, !.pc = "sector"])
                ELSE SetTop([f EXCEPT !.pc = "spy_av"])
    /\ UNCHANGED <<pure, threads, now, cache, info_cache, heap, use_yf_info, batch, ret, nReq, nTicks>>

\* The Alpha Vantage fallback of a benchmark (lines 357-366, 416-425, 505-513).
BenchmarkAv(f, sym, field, next) ==
    \E o \in AvOutcomes(sym) :
        LET b == AvBenchmark(fetch_daily_series_compact(o))
        IN  /\ Call("av", "close", sym, "compact", None,
                 AvGot(fetch_daily_series_compact(o)))
            /\ bench_cache' = IF b.ok THEN _bench_cache_set(bench_cache, sym, b.val, now)
                              ELSE bench_cache
            /\ SetTop([EndFetch(With(f, field :> b.val)) EXCEPT !.pc = next])

Sp500Av ==
    /\ At("spy_av")
    /\ BenchmarkAv(Top, SPY, "sp", "sector")
    /\ UNCHANGED <<pure, threads, now, cache, info_cache, heap, use_yf_info, batch, ret, nReq, nTicks>>

\* _fetch_sector_performance, lines 371-402.
SectorLookup ==
    /\ At("sector")
    /\ LET f == Top
           etf == SectorEtf(f.sector)
           g == _bench_cache_get(bench_cache, etf, now)
       IN  IF f.sector = None \/ etf = <<>>
           THEN /\ SetTop([f EXCEPT !.pc = "industry"])
                /\ UNCHANGED bench_cache
           ELSE /\ bench_cache' = g.cache
                /\ IF g.val # Null
                   THEN SetTop([f EXCEPT !.sec = g.val, !.pc = "industry"])
                   ELSE SetTop([f EXCEPT !.etf = etf, !.k = 0, !.last_df = EmptyDF,
                                         !.pc = "sector_dl"])
    /\ NoProviderCall
    /\ UNCHANGED <<pure, threads, now, cache, info_cache, heap, use_yf_info, batch, ret, nReq, nTicks>>

attempts == <<"1mo", "3mo", "6mo", "1y">>

\* Faulty variant: the window widens after every attempt.
PeriodWidenEach(k) == attempts[IF k < Len(attempts) THEN k + 1 ELSE Len(attempts)]

\* The window of iteration k = 0, 1, ... of the nested loops of lines 86-87.
Period(k) == attempts[(k \div 2) + 1]

\* Faulty variant: a rate-limited attempt is retried like a transient failure.
DownloadStepNoAbort(k, last_df, o) ==
    LET last == IF o.exc = None THEN o.df ELSE last_df
        more == k + 1 < 2 * Len(attempts)
    IN  IF o.exc = None /\ Usable(o.df)
        THEN [done |-> TRUE, df |-> o.df, last_df |-> last]
        ELSE [done |-> ~more, df |-> last, last_df |-> last]

\* Faulty variant: an empty result ends the loop.
DownloadStepStopOnEmpty(k, last_df, o) ==
    LET last == IF o.exc = None THEN o.df ELSE last_df
        more == k + 1 < 2 * Len(attempts)
    IN  IF o.exc = None
        THEN [done |-> TRUE, df |-> o.df, last_df |-> last]
        ELSE IF RateLimited(o.exc)
        THEN [done |-> TRUE, df |-> EmptyDF, last_df |-> last]
        ELSE [done |-> ~more, df |-> last, last_df |-> last]

\* One iteration of _download_with_fallbacks (lines 86-118):
\* [done, df, last_df]; when done, df is what the function returns.
DownloadStep(k, last_df, o) ==
    LET last == IF o.exc = None THEN o.df ELSE last_df
        more == k + 1 < 2 * Len(attempts)
    IN  IF o.exc = None /\ Usable(o.df)
        THEN [done |-> TRUE, df |-> o.df, last_df |-> last]
        ELSE IF o.exc # None /\ RateLimited(o.exc)
        THEN [done |-> TRUE, df |-> EmptyDF, last_df |-> last]
        ELSE [done |-> ~more, df |-> last, last_df |-> last]

\* _fetch_sector_performance, lines 404-414, one download attempt at a time.
SectorDownload ==
    /\ At("sector_dl")
    /\ \E o \in YfOutcomes(Top.etf, Period(Top.k)) :
         LET f == Top
             d == DownloadStep(f.k, f.last_df, o)
             data == _coerce_ohlcv_df(d.df)
         IN  /\ CallIn("yf", "download", f.etf, Period(f.k), o.exc, Got(o), f.k + 1)
             /\ IF ~d.done
                THEN /\ SetTop([f EXCEPT !.k = @ + 1, !.last_df = d.last_df])
                     /\ UNCHANGED bench_cache
                ELSE IF Usable(data) /\ Len(data.rows) >= 2
                THEN LET val == PctLastTwo(Closes(data.rows))
                     IN  /\ bench_cache' = _bench_cache_set(bench_cache, f.etf, val, now)
                         /\ SetTop([EndFetch(f) EXCEPT !.sec = val, !.pc = "industry"])
                ELSE /\ SetTop([f EXCEPT !.k = 0, !.last_df = EmptyDF,
                                         !.pc = "sector_av"])
                     /\ UNCHANGED bench_cache
    /\ UNCHANGED <<pure, threads, now, cache, info_cache, heap, use_yf_info, batch, ret, nReq, nTicks>>

SectorAv ==
    /\ At("sector_av")
    /\ BenchmarkAv(Top, Top.etf, "sec", "industry")
    /\ UNCHANGED <<pure, threads, now, cache, info_cache, heap, use_yf_info, batch, ret, nReq, nTicks>>

\* Lines 798-799 and _fetch_etf_daily_move, lines 488-503.
IndustryYf ==
    /\ At("industry")
    /\ LET f == Top
           b == _industry_benchmark_etf(f.industry, f.sector)
           etf == _normalize_ticker(b.etf)
           g == _bench_cache_get(bench_cache, etf, now)
           f1 == [f EXCEPT !.ind_label = b.label, !.etf = etf]
       IN  IF b.etf = <<>>
           THEN /\ SetTop([EndFetch(f1) EXCEPT !.pc = "peers"])
                /\ UNCHANGED bench_cache
                /\ NoProviderCall
           ELSE IF g.val # Null
           THEN /\ SetTop([EndFetch(f1) EXCEPT !.indp = g.val, !.pc = "peers"])
                /\ bench_cache' = g.cache
                /\ NoProviderCall
           ELSE \E o \in YfOutcomes(etf, "5d") :
                  LET y == BenchmarkFromYf(o)
                  IN  /\ Call("yf", "download", etf, "5d", o.exc, Got(o))
                      /\ IF y.ok
                         THEN /\ bench_cache' = _bench_cache_set(g.cache, etf, y.val, now)
                              /\ SetTop([EndFetch(f1) EXCEPT !.indp = y.val, !.pc = "peers"])
                         ELSE /\ bench_cache' = g.cache
                              /\ SetTop([f1 EXCEPT !.pc = "industry_av"])
    /\ UNCHANGED <<pure, threads, now, cache, info_cache, heap, use_yf_info, batch, ret, nReq, nTicks>>

IndustryAv ==
    /\ At("industry_av")
    /\ BenchmarkAv(Top, Top.etf, "indp", "peers")
    /\ UNCHANGED <<pure, threads, now, cache, info_cache, heap, use_yf_info, batch, ret, nReq, nTicks>>

-----------------------------------------------------------------------------
(* fetch_market_context: peer benchmark and result *)

\* Lines 535-537.
universe ==
    SubSeq([i \in 1..Len(load_sp500) |-> load_sp500[i].ticker], 1,
           IF Len(load_sp500) < 500 THEN Len(load_sp500) ELSE 500)

Low(s) == IF s = None THEN "" ELSE LowerStr(s)

\* Lines 549-558: whether a candidate with profile `info` is a peer.
IsPeer(target_sector, target_industry, info) ==
    LET sec == Low(info.sector)
        ind == Low(info.industry)
    IN  \/ (target_industry # "" /\ ind # "" /\ ind = target_industry)
        \/ /\ ~(target_industry # "" /\ ind # "" /\ ind = target_industry)
           /\ (target_industry = "" \/ ind = "")
           /\ target_sector # "" /\ sec # "" /\ sec = target_sector

\* scored.sort(reverse=True, key=cap): stable, descending on cap.
RECURSIVE InsertByCap(_, _)
InsertByCap(x, s) ==
    IF s = <<>> THEN <<x>>
    ELSE IF RLt(s[1].cap, x.cap) THEN <<x>> \o s
    ELSE <<s[1]>> \o InsertByCap(x, Tail(s))

RECURSIVE SortByCapDesc(_)
SortByCapDesc(s) ==
    IF s = <<>> THEN <<>>
    ELSE InsertByCap(Last(s), SortByCapDesc(SubSeq(s, 1, Len(s) - 1)))

max_peers == 10

\* Lines 560-566: the peers priced, by descending market capitalization.
SelectPeers(scored) ==
    LET srt == SortByCapDesc(scored)
        top == SubSeq(srt, 1, IF Len(srt) < max_peers THEN Len(srt) ELSE max_peers)
    IN  [i \in 1..Len(top) |-> top[i].t]

\* Lines 535-566, one candidate of the universe at a time.
PeerScan ==
    /\ At("peers")
    /\ LET f == Top
       IN  IF f.i <= Len(universe)
           THEN LET t == universe[f.i]
                    nt == _normalize_ticker(t)
                    need == t # f.t /\ NeedsProfile(info_cache, nt)
                IN  \E o \in (IF need THEN ProfileOutcomes(nt) ELSE {NoProfile}) :
                      LET g == _get_ticker_info(info_cache, nt, o)
                          cap == _safe_float(g.info.marketCap)
                          hit == t # f.t /\ IsPeer(Low(f.sector), Low(f.industry), g.info)
                      IN  /\ info_cache' = IF t = f.t THEN info_cache ELSE g.cache
                          /\ IF need THEN Call("yf", "info", nt, "none", o.exc, InfoGot(o))
                             ELSE NoProviderCall
                          /\ SetTop([f EXCEPT
                                 !.i = @ + 1,
                                 !.scored = IF hit
                                            THEN Append(@, [cap |-> IF Truthy(cap) THEN cap
                                                                    ELSE Num(0),
                                                            t |-> t])
                                            ELSE @])
           ELSE /\ IF f.scored = <<>>
                   THEN SetTop([f EXCEPT !.peer = NoPeer, !.pc = "finish"])
                   ELSE SetTop([f EXCEPT !.peers = SelectPeers(f.scored), !.pidx = 1,
                                         !.moves = <<>>, !.pc = "peer_price"])
                /\ NoProviderCall
                /\ UNCHANGED info_cache
    /\ UNCHANGED <<pure, threads, now, cache, bench_cache, heap, use_yf_info, batch, ret, nReq, nTicks>>

\* Lines 574-579.
PeerSummary(f) ==
    IF f.moves = <<>> THEN [label |-> None, size |-> Num(Len(f.peers)), avg |-> Null]
    ELSE [label |-> IF Low(f.industry) # "" THEN "Industry peers" ELSE "Sector peers",
          size |-> Num(Len(f.peers)),
          avg |-> _safe_float(Mean(f.moves))]

\* Lines 568-579: `r = fetch_market_context(pt)` for the next peer, or the
\* summary once every peer is priced.
PeerPrice ==
    /\ At("peer_price")
    /\ NoProviderCall
    /\ LET f == Top
       IN  IF f.pidx > Len(f.peers)
           THEN /\ SetTop([f EXCEPT !.peer = PeerSummary(f), !.pc = "finish"])
                /\ UNCHANGED <<cache, heap, ret>>
           ELSE IF Len(stack) >= RecursionLimit
           THEN \* RecursionError, caught at line 580
                /\ SetTop([f EXCEPT !.peer = NoPeer, !.pc = "finish"])
                /\ UNCHANGED <<cache, heap, ret>>
           ELSE LET t == _normalize_ticker(f.peers[f.pidx])
                    g == _cache_get(cache, t, now)
                    obs == [NoObs EXCEPT !.t = t, !.had_fresh = Fresh(t),
                                         !.had_stale = Stale(t), !.hit = g.val # NoRef]
                IN  IF g.val # NoRef
                    THEN LET r == heap[g.val]
                         IN  /\ SetTop([f EXCEPT
                                    !.moves = IF r.day_move_pct # Null
                                              THEN Append(@, r.day_move_pct) ELSE @,
                                    !.pidx = @ + 1])
                             /\ cache' = g.cache
                             /\ UNCHANGED <<heap, ret>>
                    ELSE /\ stack' = Append(stack, NewFrame(t, obs))
                         /\ cache' = g.cache
                         /\ heap' = Collect(heap, g.cache, {})
                         /\ UNCHANGED ret
    /\ UNCHANGED <<pure, threads, now, info_cache, bench_cache, use_yf_info, batch, nReq, nTicks>>

\* `if a and b`-guarded difference of lines 808-814.
RelativeStrength(day_move_pct, benchmark) ==
    IF Truthy(day_move_pct) /\ Truthy(benchmark)
    THEN _safe_float(RSub(day_move_pct, benchmark)) ELSE Null

\* Lines 816-818.
RelativeStrengthVsPeers(day_move_pct, peer_avg) ==
    IF Truthy(day_move_pct) /\ peer_avg # Null
    THEN _safe_float(RSub(day_move_pct, peer_avg)) ELSE Null

\* Lines 808-818: the three relative-strength fields.
RelativeFields(day_move_pct, sector_today, industry_today, peer_avg_move_today) ==
    [relative_strength |-> RelativeStrength(day_move_pct, sector_today),
     relative_strength_vs_industry |-> RelativeStrength(day_move_pct, industry_today),
     relative_strength_vs_peers |->
         RelativeStrengthVsPeers(day_move_pct, peer_avg_move_today)]

\* Lines 808-856: the result from the indicators m and the series.
BuildResult(f, m, series) ==
    MarketResult(
        [price_series |-> series,
         data_source |-> f.data_source,
         last_close_date |-> LastDate(series),
         price_series_days |-> Num(Len(series)),
         sector_performance_today |-> f.sec,
         sp500_performance_today |-> f.sp,
         industry_benchmark |-> f.ind_label,
         industry_performance_today |-> f.indp,
         peer_group_label |-> f.peer.label,
         peer_group_size |-> f.peer.size,
         peer_avg_move_today |-> f.peer.avg]
        @@ RelativeFields(m.day_move_pct, f.sec, f.indp, f.peer.avg)
        @@ m @@ ProfileFields(f))

FullResult(f) == BuildResult(f, Indicators(f.df), SeriesOf(f.df))

Finish ==
    /\ At("finish")
    /\ NoProviderCall
    /\ StoreAndReturn(Top, FullResult(Top))
    /\ UNCHANGED <<pure, threads, now, info_cache, bench_cache, use_yf_info, batch, nReq, nTicks>>

-----------------------------------------------------------------------------
(* fetch_markets_context and fetch_market_context_light *)

\* Lines 913-950: the MarketResult of the light path from a usable table.
LightResult(df, data_source) ==
    LET closes == Closes(df.rows)
        n == Len(df.rows)
        lo == IF n > 32 THEN n - 32 + 1 ELSE 1
        series == PriceSeries(SubSeq(df.rows, lo, n), SubSeq(closes, lo, n))
        rets == Returns(closes)
    IN  MarketResult(
            [price_series |-> series,
             day_move_pct |-> DayMove(closes),
             vol_20d |-> IF rets # <<>> THEN Vol20dSq(rets) ELSE Null,
             move_zscore |-> IF rets # <<>> THEN ZScoreSq(rets) ELSE Null,
             data_source |-> data_source,
             last_close_date |-> LastDate(series),
             price_series_days |-> Num(Len(series))])

\* Faulty variant: the provider is named whether or not it delivered a series.
LightCloseOnlyResultLabelled(series_av) ==
    MarketResult(
        [price_series |-> series_av,
         data_source |-> "alpha_vantage",
         last_close_date |-> LastDate(series_av),
         price_series_days |-> Num(Len(series_av))])

\* Lines 896-911.
LightCloseOnlyResult(series_av) ==
    MarketResult(
        [price_series |-> series_av,
         data_source |-> IF series_av # <<>> THEN "alpha_vantage" ELSE None,
         last_close_date |-> LastDate(series_av),
         price_series_days |-> Num(Len(series_av))])

\* Lines 965-1003: the TickerMarketResult built from the light result r.
TickerMarketResult(nt, r) ==
    [ticker |-> nt] @@
    MarketResult(
        [price_series |-> r.price_series, day_move_pct |-> r.day_move_pct,
         vol_20d |-> r.vol_20d, move_zscore |-> r.move_zscore,
         data_source |-> r.data_source, last_close_date |-> r.last_close_date,
         price_series_days |-> r.price_series_days])

\* Sequences of raw tickers of length at most n.
RECURSIVE TickerLists(_)
TickerLists(n) ==
    IF n = 0 THEN {<<>>}
    ELSE LET shorter == TickerLists(n - 1)
         IN  shorter \cup {Append(l, t) : l \in shorter, t \in RawTickers \ {NoneT}}

ResolveSecondary(tickers) ==
    /\ Idle
    /\ nReq < MaxRequests
    /\ nReq' = nReq + 1
    /\ lastCall' = NoCall
    /\ called' = FALSE
    /\ batch' = [NoBatch EXCEPT !.pc = "loop", !.tickers = tickers]
    /\ ret' = [NoRet EXCEPT !.input = tickers]
    /\ heap' = Collect(heap, cache, {})
    /\ UNCHANGED <<pure, threads, now, cache, info_cache, bench_cache, use_yf_info, stack, nTicks>>

\* Faulty variant: the loop head does not look at `seen`.
BatchNextNoDedup ==
    /\ batch.pc = "loop"
    /\ NoProviderCall
    /\ IF batch.i > Len(batch.tickers)
       THEN /\ ret' = [kind |-> "secondary", refs |-> batch.out, raised |-> FALSE,
                       obs |-> NoObs, input |-> batch.tickers]
            /\ batch' = NoBatch
       ELSE LET nt == _normalize_ticker(batch.tickers[batch.i])
            IN  /\ IF nt = <<>>
                   THEN batch' = [batch EXCEPT !.i = @ + 1]
                   ELSE batch' = [batch EXCEPT !.seen = @ \cup {nt}, !.nt = nt,
                                               !.pc = "light_yf"]
                /\ UNCHANGED ret
    /\ UNCHANGED <<pure, threads, now, cache, info_cache, bench_cache, heap, use_yf_info, stack,
                   nReq, nTicks>>

\* Lines 957-962 and 1006: the loop head of fetch_markets_context.
BatchNext ==
    /\ batch.pc = "loop"
    /\ NoProviderCall
    /\ IF batch.i > Len(batch.tickers)
       THEN /\ ret' = [kind |-> "secondary", refs |-> batch.out, raised |-> FALSE,
                       obs |-> NoObs, input |-> batch.tickers]
            /\ batch' = NoBatch
       ELSE LET nt == _normalize_ticker(batch.tickers[batch.i])
            IN  /\ IF nt = <<>> \/ nt \in batch.seen
                   THEN batch' = [batch EXCEPT !.i = @ + 1]
                   ELSE batch' = [batch EXCEPT !.seen = @ \cup {nt}, !.nt = nt,
                                               !.pc = "light_yf"]
                /\ UNCHANGED ret
    /\ UNCHANGED <<pure, threads, now, cache, info_cache, bench_cache, heap, use_yf_info, stack,
                   nReq, nTicks>>

\* Faulty variant: the light result is also stored in the snapshot cache.
LightReturnCached(r) ==
    LET ref == NewRef(heap)
    IN  /\ heap' = Put(heap, ref, TickerMarketResult(batch.nt, r))
        /\ batch' = [batch EXCEPT !.out = Append(@, ref), !.i = @ + 1, !.pc = "loop"]
        /\ cache' = _cache_set(cache, batch.nt, ref, now)

\* Line 964-1004: the light result r becomes out's next TickerMarketResult.
LightReturn(r) ==
    LET ref == NewRef(heap)
    IN  /\ heap' = Put(heap, ref, TickerMarketResult(batch.nt, r))
        /\ batch' = [batch EXCEPT !.out = Append(@, ref), !.i = @ + 1, !.pc = "loop"]
        /\ UNCHANGED cache

\* Lines 884-892: [raised, df, data_source].
LightFetch(o) ==
    IF o.exc # None THEN [raised |-> FALSE, df |-> EmptyDF, data_source |-> None]
    ELSE LET df == _coerce_ohlcv_df(o.df)
         IN  [raised |-> FALSE, df |-> df,
              data_source |-> IF Usable(df) THEN "yfinance" ELSE None]

\* An exception leaves fetch_markets_context.
BatchPropagate ==
    /\ ret' = [kind |-> "secondary", refs |-> <<>>, raised |-> TRUE, obs |-> NoObs,
               input |-> batch.tickers]
    /\ batch' = NoBatch
    /\ heap' = Collect(heap, cache, {})
    /\ UNCHANGED cache

LightPrimaryCall ==
    /\ batch.pc = "light_yf"
    /\ \E o \in YfOutcomes(batch.nt, "1mo") :
         LET r == LightFetch(o)
         IN  /\ Call("yf", "download", batch.nt, "1mo", o.exc, Got(o))
             /\ IF r.raised THEN BatchPropagate
                ELSE IF ~Usable(r.df)
                THEN /\ batch' = [batch EXCEPT !.pc = "light_av"]
                     /\ UNCHANGED <<heap, cache, ret>>
                ELSE /\ LightReturn(LightResult(r.df, r.data_source))
                     /\ UNCHANGED ret
    /\ UNCHANGED <<pure, threads, now, info_cache, bench_cache, use_yf_info, stack, nReq, nTicks>>

LightSecondaryCall ==
    /\ batch.pc = "light_av"
    /\ \E o \in AvOutcomes(batch.nt) :
         /\ Call("av", "close", batch.nt, "compact", None,
                 AvGot(fetch_daily_series_1mo(o)))
         /\ LightReturn(LightCloseOnlyResult(fetch_daily_series_1mo(o)))
    /\ UNCHANGED <<pure, threads, now, info_cache, bench_cache, use_yf_info, stack, ret, nReq, nTicks>>

-----------------------------------------------------------------------------
(* Specifications *)

\* The clock moves between engine calls; time is counted from the first call
\* and as long as another call can follow.
TickSteps == {_CACHE_TTL_SECONDS, _CACHE_TTL_SECONDS + 1}

Advance ==
    /\ Idle
    /\ 0 < nReq /\ nReq < MaxRequests
    /\ nTicks < MaxTicks
    /\ nTicks' = nTicks + 1
    /\ \E d \in TickSteps : now' = now + d
    /\ NoProviderCall
    /\ UNCHANGED <<pure, threads, cache, info_cache, bench_cache, heap, use_yf_info, stack, batch,
                   ret, nReq>>

InitCommon ==
    /\ now = 0
    /\ cache = EmptyDict
    /\ info_cache = EmptyDict
    /\ bench_cache = EmptyDict
    /\ heap = EmptyDict
    /\ stack = <<>>
    /\ batch = NoBatch
    /\ ret = NoRet
    /\ lastCall = NoCall
    /\ called = FALSE
    /\ nReq = 0
    /\ nTicks = 0
    /\ threads = [i \in 1..MaxThreads |-> IdleThread]

_DEFAULT_USE_YF_INFO == FALSE

Init == InitCommon /\ use_yf_info = _DEFAULT_USE_YF_INFO /\ pure = NoPure

Next ==
    \/ \E raw \in RawTickers : ResolvePrimary(raw)
    \/ FetchInfo
    \/ PrimaryCall
    \/ SecondaryOhlcCall
    \/ SecondaryCloseCall
    \/ Sp500Yf
    \/ Sp500Av
    \/ SectorLookup
    \/ SectorDownload
    \/ SectorAv
    \/ IndustryYf
    \/ IndustryAv
    \/ PeerScan
    \/ Finish
    \/ \E tickers \in TickerLists(MaxBatch) : ResolveSecondary(tickers)
    \/ BatchNext
    \/ LightPrimaryCall
    \/ LightSecondaryCall
    \/ Advance

Spec == Init /\ [][Next]_vars

\* The engine with the profile flag switched on (_DEFAULT_USE_YF_INFO = True):
\* peers are found and priced.
ProfileTickers == {<<"a">>, <<"b">>}

InitProfile == InitCommon /\ use_yf_info = TRUE /\ pure = NoPure

NextProfile ==
    \/ \E raw \in ProfileTickers : ResolvePrimary(raw)
    \/ FetchInfo
    \/ PrimaryCall
    \/ SecondaryOhlcCall
    \/ SecondaryCloseCall
    \/ Sp500Yf
    \/ Sp500Av
    \/ SectorLookup
    \/ SectorDownload
    \/ SectorAv
    \/ IndustryYf
    \/ IndustryAv
    \/ PeerScan
    \/ PeerPrice
    \/ Finish

SpecProfile == InitProfile /\ [][NextProfile]_vars

\* The engine under either setting of the profile flag, peer pricing included.
InitFlag == InitCommon /\ use_yf_info \in BOOLEAN /\ pure = NoPure

SpecFlag == InitFlag /\ [][NextProfile]_vars

\* A caller that changes the snapshot it was handed (MarketResult is an
\* ordinary dataclass, its price_series a list): it appends a point, once.
CallerPoint == [date |-> 0, close |-> Num(0)]

CallerMutates ==
    /\ Idle
    /\ ret.kind = "primary" /\ ~ret.raised
    /\ heap' = [heap EXCEPT ![ret.refs[1]].price_series = Append(@, CallerPoint)]
    /\ ret' = [ret EXCEPT !.kind = "kept"]
    /\ NoProviderCall
    /\ UNCHANGED <<pure, threads, now, cache, info_cache, bench_cache, use_yf_info, stack, batch,
                   nReq, nTicks>>

NextCaller ==
    \/ \E raw \in RawTickers : ResolvePrimary(raw)
    \/ FetchInfo
    \/ PrimaryCall
    \/ SecondaryOhlcCall
    \/ SecondaryCloseCall
    \/ Sp500Yf
    \/ Sp500Av
    \/ SectorLookup
    \/ SectorDownload
    \/ SectorAv
    \/ IndustryYf
    \/ IndustryAv
    \/ PeerScan
    \/ Finish
    \/ Advance
    \/ CallerMutates

SpecCaller == Init /\ [][NextCaller]_vars

\* The functions of the engine applied on their own, to arguments drawn from
\* bounded sets: `pure` holds the call and, in outs, what it returned.
engine == <<now, cache, info_cache, bench_cache, heap, use_yf_info, stack, batch,
            ret, lastCall, called, nReq, nTicks, threads>>

TickerChars == {" ", "a", "B", ".", "-"}

\* The strings of length at most n.
RECURSIVE Strings(_)
Strings(n) ==
    IF n = 0 THEN {<<>>}
    ELSE LET shorter == Strings(n - 1)
         IN  shorter \cup {Append(t, c) : t \in shorter, c \in TickerChars}

PureCall(fn, args) == [fn |-> fn, args |-> args, outs |-> <<>>]

NormalizeCalls ==
    {PureCall("_normalize_ticker", <<t>>) : t \in Strings(MaxLen) \cup {NoneT}}

\* A CSV file whose first row carries the ticker t, and a company to resolve.
DirectoryCalls ==
    {PureCall("resolve_sp500_ticker",
              << <<CsvRow(t, "Alpha Bank Inc.", "Financials", "")>> \o more, company >>) :
        t \in Strings(MaxLen),
        more \in {<<>>, <<CsvRow(<<"b", ".", "b">>, "Alpha Bank", "", "")>>},
        company \in {"Alpha Bank", "Alpha Bank Inc.", "Gamma Corp"}}

\* normalize(t), then normalize of what it returned.
Normalize ==
    /\ pure.fn = "_normalize_ticker"
    /\ Len(pure.outs) < 2
    /\ pure' = [pure EXCEPT !.outs =
                    Append(@, _normalize_ticker(IF @ = <<>> THEN pure.args[1] ELSE Last(@)))]
    /\ UNCHANGED engine

\* load_sp500() reads the file.
LoadDirectory ==
    /\ pure.fn = "resolve_sp500_ticker"
    /\ pure.outs = <<>>
    /\ pure' = [pure EXCEPT !.outs = <<LoadCsv(pure.args[1])>>]
    /\ UNCHANGED engine

\* resolve_sp500_ticker(company) on the loaded directory.
ResolveCompany ==
    /\ pure.fn = "resolve_sp500_ticker"
    /\ Len(pure.outs) = 1
    /\ pure' = [pure EXCEPT !.outs = Append(@, resolve_sp500_ticker(@[1], pure.args[2]))]
    /\ UNCHANGED engine

\* A store that is empty, or holds for ticker A one entry written `age`
\* seconds before the read (the clock reads 0 at the read).
Stores(ttl, vals) ==
    {EmptyDict} \cup {(<<"A">> :> [ts |-> 0 - age, val |-> v]) :
                          age \in {ttl, ttl + 1}, v \in vals}

StoredInfo == [sector |-> "Energy", industry |-> None, marketCap |-> Null,
               beta |-> Null, trailingPE |-> Null]

\* Reads of the three caches, of a key that is or is not in the store.  The
\* profile cache has entries only where the profile flag is on.
CacheCalls ==
    {PureCall("_cache_get", <<[k \in DOMAIN st |-> [ts |-> st[k].ts, ref |-> st[k].val]], key>>) :
        st \in Stores(_CACHE_TTL_SECONDS, {1}), key \in {<<"A">>, <<"B">>}}
    \cup {PureCall("_bench_cache_get", <<st, key>>) :
              st \in Stores(_BENCH_CACHE_TTL_SECONDS, {Num(1), Null}),
              key \in {<<"A">>, <<"B">>}}
    \cup {PureCall("_get_ticker_info", <<st, key, o>>) :
              st \in Stores(_INFO_CACHE_TTL_SECONDS, {StoredInfo}),
              key \in {<<"A">>, <<"B">>}, o \in ProfileOutcomes(<<"A">>)}

ReadSnapshot ==
    /\ pure.fn = "_cache_get" /\ pure.outs = <<>>
    /\ pure' = [pure EXCEPT !.outs = <<_cache_get(pure.args[1], pure.args[2], now)>>]
    /\ UNCHANGED engine

ReadBenchmark ==
    /\ pure.fn = "_bench_cache_get" /\ pure.outs = <<>>
    /\ pure' = [pure EXCEPT !.outs = <<_bench_cache_get(pure.args[1], pure.args[2], now)>>]
    /\ UNCHANGED engine

ReadProfile ==
    /\ pure.fn = "_get_ticker_info" /\ pure.outs = <<>>
    /\ pure' = [pure EXCEPT !.outs =
                    <<_get_ticker_info(pure.args[1], pure.args[2], pure.args[3])>>]
    /\ UNCHANGED engine

\* Daily closes, oldest first: flat, rising to the high, a dip within 5% of
\* the high, quiet, a moderate swing, a spike, and two closes only.
PriceTables ==
    { <<100, 100, 100>>, <<100, 150, 200>>, <<100, 100, 98, 98>>,
      <<100, 101, 101, 100>>, <<100, 100, 104, 104>>, <<50, 100, 50>>, <<100, 105>> }

TableOf(closes) == Frame([i \in 1..Len(closes) |-> Row(i, Num(closes[i]))])

IndicatorCalls == {PureCall("indicators", <<TableOf(c)>>) : c \in PriceTables}

\* A move in percent: absent, zero, up or down.
Moves == {Null, Num(0), Num(1), Num(-1)}

RelativeCalls ==
    {PureCall("relative_strength", <<d, s, i, p>>) :
        d \in Moves, s \in Moves, i \in Moves, p \in Moves}

\* The light path on the same tables, and on a table of one close.
LightCalls ==
    {PureCall("light_indicators", <<TableOf(c)>>) : c \in PriceTables \cup {<<100>>}}

ComputeLight ==
    /\ pure.fn = "light_indicators" /\ pure.outs = <<>>
    /\ pure' = [pure EXCEPT !.outs = <<LightResult(pure.args[1], "yfinance")>>]
    /\ UNCHANGED engine

ComputeIndicators ==
    /\ pure.fn = "indicators" /\ pure.outs = <<>>
    /\ pure' = [pure EXCEPT !.outs = <<Indicators(pure.args[1])>>]
    /\ UNCHANGED engine

ComputeRelativeStrength ==
    /\ pure.fn = "relative_strength" /\ pure.outs = <<>>
    /\ pure' = [pure EXCEPT !.outs =
                    <<RelativeFields(pure.args[1], pure.args[2], pure.args[3], pure.args[4])>>]
    /\ UNCHANGED engine

\* Tables as the primary provider may deliver them: rows in any order, a
\* date more than once.
DeliveredTables ==
    {Frame(rows) : rows \in UNION {[1..n -> {Row(d, Num(100)) : d \in 1..2}] :
                                       n \in 1..MaxRows}}

SeriesCalls == {PureCall("price_series", <<df>>) : df \in DeliveredTables}

\* Lines 626-628 and 683-687: the series of a delivered table.
ComputeSeries ==
    /\ pure.fn = "price_series" /\ pure.outs = <<>>
    /\ pure' = [pure EXCEPT !.outs = <<SeriesOf(_coerce_ohlcv_df(pure.args[1]))>>]
    /\ UNCHANGED engine

\* The rows a payload may carry for date d: a close that is a number, a close
\* that float() reads as nan or inf, a close that does not parse, not a record.
AvRows(d) ==
    {AvEntry(d, Num(100 + d)), AvEntry(d, NaN), AvEntry(d, PosInf), AvEntry(d, BadStr),
     [date |-> d, isdict |-> FALSE, close |-> Null, volume |-> Null]}

\* "Time Series (Daily)" is a JSON object: its dates are distinct, in any order.
AvPayloads ==
    {[kind |-> "ts", ts |-> ts] :
        ts \in {x \in UNION {[1..n -> UNION {AvRows(d) : d \in 1..MaxRows}] :
                                 n \in 1..MaxRows} :
                   \A i, j \in DOMAIN x : i # j => x[i].date # x[j].date}}

AdapterCalls ==
    {PureCall(fn, <<o>>) : fn \in {"fetch_daily_series_1mo", "fetch_daily_ohlc_1y"},
                           o \in AvPayloads}

CloseOnlyCalls == {PureCall("close_only", <<o>>) : o \in AvPayloads}

\* Lines 648-681: the snapshot built from the close-only series.
ComputeCloseOnly ==
    /\ pure.fn = "close_only" /\ pure.outs = <<>>
    /\ pure' = [pure EXCEPT !.outs =
                    <<CloseOnlyResult(NewFrame(<<"A">>, NoObs),
                                      fetch_daily_series_1mo(pure.args[1]))>>]
    /\ UNCHANGED engine

\* Two lookups of the S&P 500 move in a row, each with what its download
\* would deliver; the second finds what the first left in the cache.
BenchmarkCalls ==
    {PureCall("_fetch_sp500_performance", <<o1, o2>>) :
        o1 \in YfOutcomes(SPY, "5d") \cup {Returned(ZeroCloseFrame)},
        o2 \in YfOutcomes(SPY, "5d")}

LookupSp500 ==
    /\ pure.fn = "_fetch_sp500_performance"
    /\ Len(pure.outs) < 2
    /\ pure' = [pure EXCEPT !.outs =
                    Append(@, Sp500Try(IF @ = <<>> THEN EmptyDict ELSE Last(@).cache,
                                       pure.args[Len(@) + 1], now))]
    /\ UNCHANGED engine

FetchSeries ==
    /\ pure.fn = "fetch_daily_series_1mo" /\ pure.outs = <<>>
    /\ pure' = [pure EXCEPT !.outs = <<fetch_daily_series_1mo(pure.args[1])>>]
    /\ UNCHANGED engine

FetchOhlc ==
    /\ pure.fn = "fetch_daily_ohlc_1y" /\ pure.outs = <<>>
    /\ pure' = [pure EXCEPT !.outs = <<fetch_daily_ohlc_1y(pure.args[1])>>]
    /\ UNCHANGED engine

PureCalls ==
    NormalizeCalls \cup DirectoryCalls \cup CacheCalls \cup IndicatorCalls \cup RelativeCalls
        \cup LightCalls \cup SeriesCalls \cup AdapterCalls \cup CloseOnlyCalls
        \cup BenchmarkCalls

InitPure ==
    /\ InitCommon
    /\ pure \in PureCalls
    /\ use_yf_info = (IF pure.fn = "_get_ticker_info" THEN TRUE ELSE _DEFAULT_USE_YF_INFO)

NextPure ==
    \/ Normalize
    \/ LoadDirectory
    \/ ResolveCompany
    \/ ReadSnapshot
    \/ ReadBenchmark
    \/ ReadProfile
    \/ ComputeIndicators
    \/ ComputeLight
    \/ ComputeSeries
    \/ FetchSeries
    \/ FetchOhlc
    \/ ComputeCloseOnly
    \/ LookupSp500
    \/ ComputeRelativeStrength

SpecPure == InitPure /\ [][NextPure]_vars

-----------------------------------------------------------------------------
(* Concurrent requests.  The route handler is a plain `def` (routes.py 25),   *)
(* which the framework runs on worker threads: several activations of        *)
(* fetch_market_context share _cache.  A step is one access to the shared    *)
(* dictionary together with the thread-local statements around it.           *)

ThreadTickers == {<<"A">>, <<"B">>}

\* What the threads leave alone.
rest == <<info_cache, bench_cache, use_yf_info, stack, batch, ret, lastCall,
          called, nReq, pure>>

\* A request enters fetch_market_context(t) on thread i (lines 598-600).
ThreadBegin(i) ==
    /\ threads[i].pc = "idle"
    /\ threads[i].n < MaxThreadRequests
    /\ \E t \in ThreadTickers :
         threads' = [threads EXCEPT ![i] = [@ EXCEPT !.pc = "read", !.t = t, !.n = @ + 1]]
    /\ UNCHANGED <<now, cache, heap, nTicks, rest>>

\* _cache_get, lines 40-41: `now = time.time(); hit = _cache.get(ticker)`.
ThreadRead(i) ==
    /\ threads[i].pc = "read"
    /\ threads' = [threads EXCEPT ![i] =
                       [@ EXCEPT !.pc = "check", !.nowL = now,
                                 !.hit = IF threads[i].t \in DOMAIN cache
                                         THEN <<cache[threads[i].t]>> ELSE <<>>]]
    /\ UNCHANGED <<now, cache, heap, nTicks, rest>>

\* _cache_get, lines 42-48, on the locals: a miss, a stale hit that is
\* popped from the dictionary, or a hit that is returned (line 602).
ThreadCheck(i) ==
    /\ threads[i].pc = "check"
    /\ LET th == threads[i]
       IN  IF th.hit = <<>>
           THEN /\ threads' = [threads EXCEPT ![i].pc = "compute"]
                /\ UNCHANGED <<cache, heap>>
           ELSE IF th.nowL - th.hit[1].ts > _CACHE_TTL_SECONDS
           THEN /\ threads' = [threads EXCEPT ![i].pc = "compute"]
                /\ cache' = Pop(cache, th.t)
                /\ heap' = Collect(heap, cache', {})
           ELSE /\ threads' = [threads EXCEPT ![i] = [IdleThread EXCEPT !.n = th.n]]
                /\ UNCHANGED <<cache, heap>>
    /\ UNCHANGED <<now, nTicks, rest>>

\* The snapshot is computed and stored: `_cache_set(t, res); return res`.
ThreadStore(i) ==
    /\ threads[i].pc = "compute"
    /\ LET ref == NewRef(heap)
       IN  /\ cache' = _cache_set(cache, threads[i].t, ref, now)
           /\ heap' = Collect(Put(heap, ref, MarketResult(EmptyDict)), cache', {})
    /\ threads' = [threads EXCEPT ![i] = [IdleThread EXCEPT !.n = threads[i].n]]
    /\ UNCHANGED <<now, nTicks, rest>>

\* Time passes, whatever the threads are doing.
ThreadTick ==
    /\ nTicks < MaxTicks
    /\ nTicks' = nTicks + 1
    /\ \E d \in TickSteps : now' = now + d
    /\ UNCHANGED <<cache, heap, threads, rest>>

NextThreads ==
    \/ \E i \in 1..MaxThreads : ThreadBegin(i)
    \/ \E i \in 1..MaxThreads : ThreadRead(i)
    \/ \E i \in 1..MaxThreads : ThreadCheck(i)
    \/ \E i \in 1..MaxThreads : ThreadStore(i)
    \/ ThreadTick

SpecThreads == Init /\ [][NextThreads]_vars

-----------------------------------------------------------------------------
(* Properties *)

\* The primary-provider download of the last step hit the rate limit.
RateLimitedDownload(c) ==
    c.prov = "yf" /\ c.fn = "download" /\ c.exc # None /\ RateLimited(c.exc)

\* C1: once a primary download is classified rate-limited, the step that
\* follows is the secondary provider's call for the same symbol: no further
\* primary attempt, no wider window, in the price cascade, in the benchmark
\* fetches and in the window-widening loop alike.
C1_RateLimitFallsBack ==
    [][RateLimitedDownload(lastCall)
         => (lastCall'.prov = "av" /\ lastCall'.sym = lastCall.sym)]_vars

\* C1, witness: the window-widening loop was left on a rate-limited attempt in
\* its second window, and the secondary fallback of the sector fetch is next.
C1_Witness ==
    /\ At("sector_av")
    /\ RateLimitedDownload(lastCall)
    /\ lastCall.period = "3mo"
    /\ Top.k = 0

\* An engine call resolvePrimary(raw) is made in this step.
PrimaryCallStep(raw) ==
    /\ Idle
    /\ nReq' = nReq + 1
    /\ batch'.pc = "idle"
    /\ ret'.input = <<raw>>

\* C2, first half: a call made while the entry of the normalized ticker is
\* within the TTL returns at once the stored object, unchanged, and reaches
\* no provider.
C2_HitStep ==
    \A raw \in RawTickers \ {NoneT, <<>>} :
        LET nt == _normalize_ticker(raw)
        IN  (PrimaryCallStep(raw) /\ Fresh(nt))
                => /\ stack' = <<>>
                   /\ ret'.kind = "primary" /\ ~ret'.raised
                   /\ ret'.refs = <<cache[nt].ref>>
                   /\ heap'[cache[nt].ref] = heap[cache[nt].ref]
                   /\ cache' = cache
                   /\ ~called' /\ lastCall' = NoCall

\* C2, second half: a call made after the entry has expired misses and drops
\* the entry; when it returns it has fetched once and stored once what it
\* returns, so that the entry is within the TTL again.
C2_RecomputeStep ==
    /\ \A raw \in RawTickers \ {NoneT, <<>>} :
          LET nt == _normalize_ticker(raw)
          IN  (PrimaryCallStep(raw) /\ Stale(nt))
                  => /\ Len(stack') = 1 /\ stack'[1].t = nt
                     /\ nt \notin DOMAIN cache'
    /\ (Len(stack) = 1 /\ stack' = <<>> /\ Top.obs.had_stale)
          => /\ ret'.kind = "primary" /\ ~ret'.raised
             /\ ~ret'.obs.hit
             /\ ret'.obs.n1y = 1 /\ ret'.obs.nStore = 1
             /\ Top.t \in DOMAIN cache'
             /\ cache'[Top.t].ref = ret'.refs[1]
             /\ now' - cache'[Top.t].ts <= _CACHE_TTL_SECONDS

\* C2: a hit within the TTL returns the stored snapshot without any provider;
\* the first call after expiry recomputes exactly once and leaves a fresh
\* entry behind.
C2_CacheHitAndExpiry == [][C2_HitStep /\ C2_RecomputeStep]_vars

\* C2, witness: the second call found an expired entry, recomputed and
\* returned; the new entry is the object returned.
C2_Witness ==
    /\ Idle /\ ret.kind = "primary"
    /\ ret.obs.had_stale /\ ret.obs.nStore = 1
    /\ Fresh(ret.obs.t) /\ cache[ret.obs.t].ref = ret.refs[1]

\* C3: whatever the providers do, resolvePrimary and resolveSecondary return
\* to their caller; no exception leaves the engine.
C3_NeverRaises == ~ret.raised

\* C3, witness: the primary provider raised, the secondary provider failed
\* twice, and the call returned a snapshot all the same.
C3_Witness ==
    /\ Idle /\ ret.kind = "primary" /\ ~ret.raised
    /\ ret.obs.pOut = "raised" /\ ret.obs.nClose = 1
    /\ Len(ret.refs) = 1

\* resolvePrimary has returned from a computation (no cache hit, no empty input).
Computed ==
    /\ Idle /\ ret.kind = "primary" /\ ~ret.raised
    /\ ~ret.obs.hit /\ ~ret.obs.empty_input

Result == heap[ret.refs[1]]

\* C4: on a cache miss the primary adapter is called exactly once; the
\* secondary OHLCV adapter exactly when that call raised or gave no usable
\* table; the close-only series exactly when the OHLCV result was unusable
\* too; data_source is "yfinance" exactly when the primary table was used and
\* "alpha_vantage" exactly when a secondary result was used.
C4_CascadeOrder ==
    Computed =>
        LET o == ret.obs
        IN  /\ o.n1y = 1
            /\ o.nOhlc = (IF o.pOut \in {"raised", "unusable"} THEN 1 ELSE 0)
            /\ o.nClose = (IF o.nOhlc = 1 /\ o.oOut = "unusable" THEN 1 ELSE 0)
            /\ (Result.data_source = "yfinance") <=> (o.pOut = "usable")
            /\ (Result.data_source = "alpha_vantage")
                   <=> (o.pOut # "usable" /\ (o.oOut = "usable" \/ o.cSeries # <<>>))

\* C4, witness: the primary call returned an unusable table, the secondary
\* OHLCV table was used, and the close-only series was not asked for.
C4_Witness ==
    /\ Computed
    /\ ret.obs.pOut = "unusable" /\ ret.obs.nOhlc = 1 /\ ret.obs.oOut = "usable"
    /\ ret.obs.nClose = 0
    /\ Result.data_source = "alpha_vantage"

\* The three adapters of the cascade were called and none delivered anything.
AllFailed ==
    /\ Computed
    /\ ret.obs.pOut \in {"raised", "unusable"}
    /\ ret.obs.nOhlc = 1 /\ ret.obs.oOut = "unusable"
    /\ ret.obs.nClose = 1 /\ ret.obs.cSeries = <<>>

\* C5: when the primary adapter, the secondary OHLCV adapter and the
\* close-only adapter all deliver nothing, the result is the empty snapshot:
\* no price series, no day move, volatility or z-score, data_source none.
C5_EmptySnapshot ==
    AllFailed =>
        /\ Result.price_series = <<>>
        /\ Result.day_move_pct = Null
        /\ Result.vol_20d = Null
        /\ Result.move_zscore = Null
        /\ Result.data_source = None

\* C5, witness: a total outage of both providers for a real ticker.
C5_Witness ==
    AllFailed /\ ret.obs.pOut = "raised" /\ ret.obs.t # <<>> /\ called

\* The fields of a snapshot derived from prices, benchmarks and peers.
DerivedMetrics ==
    {"day_move_pct", "vol_20d", "move_zscore", "week_52_high", "week_52_low",
     "pct_from_52w_high", "pct_from_52w_low", "rsi_14d", "ma_50d", "ma_200d",
     "average_volume_20d", "current_volume", "sector_performance_today",
     "sp500_performance_today", "relative_strength", "industry_performance_today",
     "relative_strength_vs_industry", "peer_group_size", "peer_avg_move_today",
     "relative_strength_vs_peers"}

DerivedLabels == {"volatility_regime", "industry_benchmark", "peer_group_label"}

DerivedFlags == {"unusual_volume", "near_52w_high"}

NoDerivedMetric(r) ==
    /\ \A f \in DerivedMetrics : r[f] = Null
    /\ \A f \in DerivedLabels : r[f] = None
    /\ \A f \in DerivedFlags : r[f] = FALSE

\* Both table fetches failed and the close-only series has a point.
CloseOnly ==
    /\ Computed
    /\ ret.obs.pOut \in {"raised", "unusable"}
    /\ ret.obs.nOhlc = 1 /\ ret.obs.oOut = "unusable"
    /\ ret.obs.nClose = 1 /\ ret.obs.cSeries # <<>>

\* C6: when both table fetches fail and the close-only series has at least
\* one point, the result is the minimal snapshot: that series, data_source
\* secondary, and every derived metric unset (null, flags false).
C6_MinimalSnapshot ==
    CloseOnly =>
        /\ Result.price_series = ret.obs.cSeries
        /\ Result.data_source = "alpha_vantage"
        /\ NoDerivedMetric(Result)

\* C6, witness: a close-only series of two points, from which a day move
\* could have been computed.
C6_Witness ==
    CloseOnly /\ Len(Result.price_series) = 2

CachedRefs == {cache[k].ref : k \in DOMAIN cache}

\* A step of resolveSecondary, from its call to its return.
LightStep == batch.pc # "idle" \/ batch'.pc # "idle"

\* What resolveSecondary returned is no object of the snapshot cache.
NotFromCache ==
    ret.kind = "secondary" => \A i \in 1..Len(ret.refs) : ret.refs[i] \notin CachedRefs

\* C7: no step of the light path changes the snapshot cache or a snapshot
\* stored in it, and no object the light path returns is one the cache holds.
C7_LightPathLeavesCache ==
    [][/\ LightStep => /\ cache' = cache
                       /\ \A r \in CachedRefs : heap'[r] = heap[r]
       /\ NotFromCache']_vars

\* C7, witness: a full snapshot is cached for a symbol, and a light lookup of
\* the same symbol has returned.
C7_Witness ==
    /\ Idle /\ ret.kind = "secondary" /\ ret.refs # <<>>
    /\ heap[ret.refs[1]].ticker \in DOMAIN cache
    /\ heap[cache[heap[ret.refs[1]].ticker].ref].price_series # <<>>

\* The distinct non-empty entries of n[1..k], in order of first occurrence.
RECURSIVE DistinctUpTo(_, _)
DistinctUpTo(n, k) ==
    IF k = 0 THEN <<>>
    ELSE LET pre == DistinctUpTo(n, k - 1)
         IN  IF n[k] # <<>> /\ \A j \in 1..(k - 1) : n[j] # n[k]
             THEN Append(pre, n[k]) ELSE pre

Expected(tickers) ==
    DistinctUpTo([i \in 1..Len(tickers) |-> _normalize_ticker(tickers[i])], Len(tickers))

\* The fields the light path leaves unset.
LightUnset(r) ==
    /\ \A f \in DerivedMetrics \ {"day_move_pct", "vol_20d", "move_zscore"} : r[f] = Null
    /\ \A f \in DerivedLabels : r[f] = None
    /\ \A f \in DerivedFlags : r[f] = FALSE

\* C8: resolveSecondary returns one snapshot per distinct non-empty
\* normalized ticker, in order of first occurrence, labelled with that ticker;
\* while it runs, the only provider calls are the light path's 1-month
\* download and close-only series for the ticker at hand, never through the
\* full pipeline; every benchmark, peer, relative-strength, 52-week, RSI and
\* moving-average field of what it returns is unset.
C8_SecondarySnapshots ==
    /\ (Idle /\ ret.kind = "secondary") =>
          LET exp == Expected(ret.input)
          IN  /\ ~ret.raised
              /\ Len(ret.refs) = Len(exp)
              /\ \A i \in 1..Len(exp) :
                    /\ heap[ret.refs[i]].ticker = exp[i]
                    /\ LightUnset(heap[ret.refs[i]])
    /\ batch.pc # "idle" =>
          /\ stack = <<>>
          /\ \/ lastCall = NoCall
             \/ /\ lastCall.sym = batch.nt
                /\ \/ lastCall.prov = "yf" /\ lastCall.fn = "download"
                      /\ lastCall.period = "1mo"
                   \/ lastCall.prov = "av" /\ lastCall.fn = "close"

\* C8, witness: the same symbol given twice in different spellings, after
\* another one; two snapshots came back.
C8_Witness ==
    /\ Idle /\ ret.kind = "secondary"
    /\ ret.input = << <<"b">>, <<" ", "a">> >>
    /\ Len(ret.refs) = 2
    /\ heap[ret.refs[2]].price_series # <<>>

\* C8, witness of de-duplication: two spellings of one symbol, one snapshot.
C8_DuplicateSeen ==
    /\ Idle /\ ret.kind = "secondary"
    /\ ret.input = << <<"a">>, <<" ", "a">> >>
    /\ Len(ret.refs) = 1

\* C9: what a cache hit hands to the caller carries no change made by a
\* caller to a snapshot returned earlier.
C9_HitUntouchedByCaller ==
    (Idle /\ ret.kind = "primary" /\ ret.obs.hit)
        => \A i \in 1..Len(Result.price_series) : Result.price_series[i] # CallerPoint

\* C9: a snapshot handed to the caller is never the object the cache holds.
C9_NoLiveReference ==
    (Idle /\ ret.kind = "primary") => ret.refs[1] \notin CachedRefs

BenchmarkSymbols == {SPY, XLF, KBE}

\* C10: while a peer is priced (an activation nested in the peer loop), no
\* benchmark ETF is fetched and no peer group is computed for that peer.
C10_PeersPricedLightly ==
    /\ lastCall.depth >= 2 => lastCall.sym \notin BenchmarkSymbols
    /\ Len(stack) >= 2 => Top.pc \notin {"peers", "peer_price"}

PeerFields ==
    {"peer_group_size", "peer_avg_move_today", "relative_strength_vs_peers"}

\* C11: with the profile flag off no peer is found: every snapshot the engine
\* holds or returns has its four peer fields unset, the profile cache stays
\* empty, no profile is requested from the network, and no peer is priced (no
\* activation is nested in another, the peer loop is never entered).
C11_FlagOffNoPeers ==
    ~use_yf_info =>
        /\ info_cache = EmptyDict
        /\ lastCall.fn # "info"
        /\ Len(stack) <= 1
        /\ ~At("peer_price")
        /\ \A r \in DOMAIN heap :
              /\ heap[r].peer_group_label = None
              /\ \A f \in PeerFields : heap[r][f] = Null

\* C11, witness: with the flag off, a full snapshot with a day move and a
\* sector was returned for a ticker whose directory holds another candidate.
C11_Witness ==
    /\ ~use_yf_info
    /\ Computed
    /\ ret.obs.t = <<"A">>
    /\ Result.day_move_pct # Null
    /\ Result.sector = "Financials"
    /\ Len(universe) >= 2

\* An input that is empty once stripped: None, "", or whitespace only.
Blank(raw) == raw = NoneT \/ Strip(raw) = <<>>

\* C12: for an empty or whitespace-only ticker resolvePrimary short-circuits
\* to the no-data result: no activation works on the empty symbol, no
\* provider is asked for it, the snapshot cache is neither read nor written
\* for it, and what is returned is a new empty snapshot; resolveSecondary
\* emits no snapshot for such an element.
C12_BlankShortCircuits ==
    /\ \A i \in 1..Len(stack) : stack[i].t # <<>>
    /\ <<>> \notin DOMAIN cache
    /\ lastCall # NoCall => lastCall.sym # <<>>
    /\ (Idle /\ ret.kind = "primary" /\ Blank(ret.input[1])) =>
          /\ ~ret.raised
          /\ ret.obs.empty_input
          /\ ret.refs[1] \notin CachedRefs
          /\ Result = MarketResult(EmptyDict)
    /\ (Idle /\ ret.kind = "secondary") =>
          \A i \in 1..Len(ret.refs) : heap[ret.refs[i]].ticker # <<>>

\* C13: normalization is idempotent: normalizing what normalization returned
\* gives it back unchanged, for every input string and for None.
C13_NormalizeIdempotent ==
    (pure.fn = "_normalize_ticker" /\ Len(pure.outs) = 2) => pure.outs[2] = pure.outs[1]

\* C13, witness: a string with blanks at both ends, a lower-case letter and a
\* dot has been normalized twice.
C13_Witness ==
    /\ pure.fn = "_normalize_ticker" /\ Len(pure.outs) = 2
    /\ pure.args[1] \in {<<" ", "a", " ">>, <<".", "a", " ">>}
    /\ pure.outs[1] # pure.args[1]

Lowercase == {"a", "b"}

\* An uppercase ticker without blanks at its ends and without a dot.
Clean(t) ==
    /\ t = <<>> \/ (~IsSpace(t[1]) /\ ~IsSpace(t[Len(t)]))
    /\ \A i \in 1..Len(t) : t[i] \notin Lowercase \cup {"."}

\* out carries a dash wherever the stripped input carried a dot.
DotsToDashes(in, out) ==
    LET core == LStrip(RStrip(in))
    IN  /\ Len(out) = Len(core)
        /\ \A i \in 1..Len(core) : (core[i] = ".") => (out[i] = "-")

\* C14: every ticker normalization produces is uppercase, trimmed and free of
\* dots, with a dash where a dot stood; so is every ticker of the loaded
\* offline directory and every ticker it resolves a company name to.
C14_TickersClean ==
    /\ (pure.fn = "_normalize_ticker" /\ pure.outs # <<>>) =>
          /\ Clean(pure.outs[1])
          /\ pure.args[1] # NoneT => DotsToDashes(pure.args[1], pure.outs[1])
    /\ (pure.fn = "resolve_sp500_ticker" /\ pure.outs # <<>>) =>
          \A i \in 1..Len(pure.outs[1]) :
              /\ Clean(pure.outs[1][i].ticker)
              /\ DotsToDashes(pure.args[1][i].ticker, pure.outs[1][i].ticker)
    /\ (pure.fn = "resolve_sp500_ticker" /\ Len(pure.outs) = 2 /\ pure.outs[2] # NoneT) =>
          Clean(pure.outs[2])

\* C14, witness: the directory resolved a company name to the ticker of a
\* row that carried it in lower case with a dot.
C14_Witness ==
    /\ pure.fn = "resolve_sp500_ticker" /\ Len(pure.outs) = 2
    /\ pure.args[1][1].ticker = <<"a", ".", "B">>
    /\ pure.outs[2] = <<"A", "-", "B">>

WindowSequence == <<"1mo", "1mo", "3mo", "3mo", "6mo", "6mo", "1y", "1y">>

\* The call of the last step was made by the window-widening loop.
LoopCall(c) == c.attempt >= 1

\* The call failed with an exception that is no rate-limit signature.
TransientFailure(c) == c.exc # None /\ ~RateLimited(c.exc)

\* C15: the calls of the window-widening loop are a prefix of 1mo, 1mo, 3mo,
\* 3mo, 6mo, 6mo, 1y, 1y: each attempt follows the previous one in that
\* sequence, at most eight are made; no attempt follows one that returned a
\* non-empty table with a Close column; and a transient failure on the first
\* attempt of a window is followed by the second attempt in that window.
C15_WindowWidening ==
    [][/\ LoopCall(lastCall') =>
             /\ lastCall'.attempt = lastCall.attempt + 1
             /\ lastCall'.attempt <= Len(WindowSequence)
             /\ lastCall'.period = WindowSequence[lastCall'.attempt]
             /\ lastCall'.prov = "yf" /\ lastCall'.fn = "download"
             /\ LoopCall(lastCall) => lastCall'.sym = lastCall.sym
       /\ (LoopCall(lastCall) /\ lastCall.res = "table") => ~LoopCall(lastCall')
       /\ (LoopCall(lastCall) /\ lastCall.attempt % 2 = 1 /\ TransientFailure(lastCall))
             => /\ LoopCall(lastCall')
                /\ lastCall'.period = lastCall.period]_vars

\* C15, witness: the eighth attempt, in the 1-year window, returned a table
\* and the sector move was computed from it.
C15_Witness ==
    /\ LoopCall(lastCall) /\ lastCall.attempt = 8
    /\ lastCall.period = "1y" /\ lastCall.res = "table"
    /\ At("industry")

\* A primary download that returned a well-formed but empty result.
EmptyDownload(c) == c.prov = "yf" /\ c.fn = "download" /\ c.res = "empty"

PrimaryDownloadOf(c, sym) == c.prov = "yf" /\ c.fn = "download" /\ c.sym = sym

\* C16, as claimed: after a primary call returned an empty result without
\* raising, no further primary call is made for the same symbol in that fetch.
C16_EmptyNotRetried ==
    [][EmptyDownload(lastCall) => ~PrimaryDownloadOf(lastCall', lastCall.sym)]_vars

\* C16, amended: where the engine makes a single primary call (the 1-year
\* call, the light path's 1-month call, the 5-day calls for the S&P 500 and
\* industry ETFs) an empty result is not retried, the secondary provider is
\* asked next for the same symbol; inside the window-widening loop an empty
\* result counts as a failed attempt: the next attempt of the sequence
\* follows, and the secondary provider only after the eighth.
C16_EmptyRetriedOnlyInLoop ==
    [][EmptyDownload(lastCall) =>
          IF LoopCall(lastCall) /\ lastCall.attempt < Len(WindowSequence)
          THEN /\ PrimaryDownloadOf(lastCall', lastCall.sym)
               /\ lastCall'.attempt = lastCall.attempt + 1
          ELSE lastCall'.prov = "av" /\ lastCall'.sym = lastCall.sym]_vars

\* C16, witness: the loop goes on after two empty results of its first window.
C16_Witness ==
    /\ At("sector_dl") /\ Top.k = 2
    /\ EmptyDownload(lastCall) /\ lastCall.attempt = 2

\* C16, witness outside the loop: the 1-year call returned nothing and the
\* secondary OHLCV history is next.
C16_SingleCallWitness ==
    /\ At("av_ohlc")
    /\ EmptyDownload(lastCall) /\ lastCall.period = "1y" /\ ~LoopCall(lastCall)

CacheReads == {"_cache_get", "_bench_cache_get", "_get_ticker_info"}

TtlOf(fn) ==
    CASE fn = "_cache_get" -> _CACHE_TTL_SECONDS
      [] fn = "_bench_cache_get" -> _BENCH_CACHE_TTL_SECONDS
      [] fn = "_get_ticker_info" -> _INFO_CACHE_TTL_SECONDS

\* store[key] is older than ttl at the time of the read.
StaleIn(store, key, ttl) == key \in DOMAIN store /\ now - store[key].ts > ttl

\* C17: in each of the three caches a read that finds an entry older than
\* the cache's TTL reports a miss, returns nothing of the stale entry, and
\* leaves no stale entry for that key in the store.
C17_EvictOnRead ==
    (pure.fn \in CacheReads /\ pure.outs # <<>>
        /\ StaleIn(pure.args[1], pure.args[2], TtlOf(pure.fn))) =>
        LET out == pure.outs[1]
            key == pure.args[2]
        IN  /\ pure.fn = "_cache_get" => out.val = NoRef
            /\ pure.fn = "_bench_cache_get" => out.val = Null
            /\ pure.fn = "_get_ticker_info" => out.info # StoredInfo
            /\ ~StaleIn(out.cache, key, TtlOf(pure.fn))

\* field is the difference of the two operands, and null exactly when one of
\* them is null.
DifferenceOf(field, day_move_pct, benchmark) ==
    IF day_move_pct = Null \/ benchmark = Null THEN field = Null
    ELSE field = RSub(day_move_pct, benchmark)

\* C18: each relative-strength field is day_move_pct minus its benchmark
\* move, and is null if and only if one of the two operands is null (a move
\* of exactly 0 still gives a number).
C18_RelativeStrengthIsDifference ==
    (pure.fn = "relative_strength" /\ pure.outs # <<>>) =>
        /\ DifferenceOf(pure.outs[1].relative_strength, pure.args[1], pure.args[2])
        /\ DifferenceOf(pure.outs[1].relative_strength_vs_industry,
                        pure.args[1], pure.args[3])
        /\ DifferenceOf(pure.outs[1].relative_strength_vs_peers,
                        pure.args[1], pure.args[4])

\* C19: near_52w_high is true if and only if pct_from_52w_high is non-null
\* and at least -5.
C19_NearHighIffWithinFive ==
    (pure.fn = "indicators" /\ pure.outs # <<>>) =>
        (pure.outs[1].near_52w_high <=>
            (pure.outs[1].pct_from_52w_high # Null
                /\ RLe(Num(-5), pure.outs[1].pct_from_52w_high)))

\* C20: with vol_20d non-null, volatility_regime is 'low' below 1.0, 'high'
\* above 3.0 and 'normal' otherwise; it is null only when vol_20d is null.
\* (vol_20d is carried squared: the thresholds are 1 and 9.)
C20_RegimeByThresholds ==
    (pure.fn = "indicators" /\ pure.outs # <<>>) =>
        LET v == pure.outs[1].vol_20d
            regime == pure.outs[1].volatility_regime
        IN  IF v = Null THEN regime = None
            ELSE regime = (IF RLt(v, Num(1)) THEN "low"
                           ELSE IF RLt(Num(9), v) THEN "high" ELSE "normal")

\* The percentage move between the last two closes of a provider's table.
LastTwoMove(closes) ==
    IF Len(closes) < 2 THEN Null
    ELSE RMul(RDiv(RSub(Last(closes), closes[Len(closes) - 1]), closes[Len(closes) - 1]),
              Num(100))

\* C21: on the full path and on the light path day_move_pct is the move
\* between the last two closes the provider delivered (5.0 for 100, 105),
\* and null with fewer than two closes.
C21_DayMoveOfDeliveredCloses ==
    (pure.fn \in {"indicators", "light_indicators"} /\ pure.outs # <<>>) =>
        pure.outs[1].day_move_pct = LastTwoMove(Closes(pure.args[1].rows))

StrictlyAscending(series) ==
    \A i \in 1..(Len(series) - 1) : series[i].date < series[i + 1].date

\* C22: the dates of a non-empty price_series are strictly ascending, no
\* date twice, whatever rows the providers delivered.
C22_SeriesStrictlyAscending ==
    (pure.fn \in {"price_series", "fetch_daily_series_1mo"} /\ pure.outs # <<>>) =>
        StrictlyAscending(pure.outs[1])

\* A row of a payload that is a record and whose close parses.
WellFormed(e) == e.isdict /\ e.close # Null /\ e.close # BadStr

FloatFields ==
    {"day_move_pct", "vol_20d", "move_zscore", "current_price", "week_52_high",
     "week_52_low", "pct_from_52w_high", "pct_from_52w_low", "market_cap", "beta",
     "pe_ratio", "sector_performance_today", "sp500_performance_today",
     "relative_strength", "industry_performance_today", "relative_strength_vs_industry",
     "peer_avg_move_today", "relative_strength_vs_peers", "rsi_14d", "ma_50d", "ma_200d",
     "average_volume_20d", "current_volume"}

NullOrFinite(x) == x = Null \/ IsFinite(x)

\* C23: no float of a snapshot leaving the engine, the close of a
\* price_series point included, is NaN or an infinity.
C23_NoNanLeaves ==
    (pure.fn \in {"close_only", "light_indicators"} /\ pure.outs # <<>>) =>
        /\ \A f \in FloatFields : NullOrFinite(pure.outs[1][f])
        /\ \A i \in DOMAIN pure.outs[1].price_series :
               NullOrFinite(pure.outs[1].price_series[i].close)

\* The profile the peer scan read for candidate t.
ProfileOf(t) ==
    IF _normalize_ticker(t) \in DOMAIN info_cache
    THEN info_cache[_normalize_ticker(t)].val ELSE EmptyInfo

MatchedByIndustry(f, t) ==
    Low(f.industry) # "" /\ Low(ProfileOf(t).industry) = Low(f.industry)

MatchedBySector(f, t) ==
    ~MatchedByIndustry(f, t)
        /\ Low(f.sector) # "" /\ Low(ProfileOf(t).sector) = Low(f.sector)

\* C24: peer_group_label names the tier that produced the peers: 'Industry
\* peers' only when the selected peers matched by industry, 'Sector peers'
\* when they matched by sector.
C24_LabelNamesTier ==
    \A i \in DOMAIN stack :
        /\ stack[i].peer.label = "Industry peers" =>
               \A k \in DOMAIN stack[i].peers : MatchedByIndustry(stack[i], stack[i].peers[k])
        /\ stack[i].peer.label = "Sector peers" =>
               \A k \in DOMAIN stack[i].peers : MatchedBySector(stack[i], stack[i].peers[k])

\* What resolvePrimary computed for a non-empty normalized ticker is the
\* entry of that ticker in the snapshot cache.
C26_ReturnStored ==
    (Computed /\ ret.obs.t # <<>>) =>
        /\ ret.obs.t \in DOMAIN cache
        /\ cache[ret.obs.t].ref = ret.refs[1]

\* A call that finds an empty snapshot within the TTL returns that object
\* and reaches no provider.
C26_OutageServedFromCache ==
    \A raw \in RawTickers \ {NoneT, <<>>} :
        LET nt == _normalize_ticker(raw)
        IN  (PrimaryCallStep(raw) /\ nt # <<>> /\ Fresh(nt)
                /\ heap[cache[nt].ref].data_source = None)
                => /\ stack' = <<>>
                   /\ ret'.refs = <<cache[nt].ref>>
                   /\ heap'[cache[nt].ref] = heap[cache[nt].ref]
                   /\ ~called' /\ lastCall' = NoCall

\* C26: every return of resolvePrimary for a non-empty normalized ticker,
\* the degraded ones included, has stored the snapshot under that ticker;
\* after a total outage later calls within the TTL get the same empty
\* snapshot and call no provider.
C26_DegradedSnapshotsCached ==
    []C26_ReturnStored /\ [][C26_OutageServedFromCache]_vars

\* C26, witness: the second call for a ticker was served the empty snapshot
\* stored during the outage.
C26_Witness ==
    /\ Idle /\ ret.kind = "primary" /\ ret.obs.hit /\ ret.obs.t # <<>>
    /\ Result.data_source = None /\ Result.price_series = <<>>
    /\ cache[ret.obs.t].ref = ret.refs[1]

\* C27: under any interleaving of concurrent requests no step removes from
\* the snapshot cache an entry that is within its TTL.
C27_FreshEntryNeverEvicted ==
    [][\A t \in DOMAIN cache : Fresh(t) => t \in DOMAIN cache']_vars

\* C28: resolvePrimary(t) does not re-enter the computation of a ticker that
\* is still in progress: no two activations on the call stack are for the
\* same ticker.
C28_NoReentry ==
    \A i, j \in DOMAIN stack : i # j => stack[i].t # stack[j].t

\* C29: once _bench_cache_set has stored a move for an ETF symbol, a lookup
\* of that symbol within the TTL is served from the cache without a
\* provider call, whatever was stored, a null included.
C29_StoredBenchmarkServed ==
    (pure.fn = "_fetch_sp500_performance" /\ Len(pure.outs) = 2
        /\ SPY \in DOMAIN pure.outs[1].cache) =>
        /\ ~pure.outs[2].called
        /\ pure.outs[2].val = pure.outs[1].cache[SPY].val

\* C30: in every snapshot of resolvePrimary and of the light path,
\* data_source is none if and only if price_series is empty.
C30_SourceNoneIffNoSeries ==
    \A r \in DOMAIN heap :
        heap[r].data_source = None <=> heap[r].price_series = <<>>

\* C30, witness: a batch returned two light snapshots, the first without
\* data and without a source, the second with a series and its source.
C30_Witness ==
    /\ Idle /\ ret.kind = "secondary" /\ Len(ret.refs) = 2
    /\ heap[ret.refs[1]].data_source = None /\ heap[ret.refs[1]].price_series = <<>>
    /\ heap[ret.refs[2]].data_source = "alpha_vantage"
    /\ heap[ret.refs[2]].price_series # <<>>

====
